---------------------------- MODULE Spec2Model ----------------------------
(***************************************************************************)
(* NBA-Analytics: the tabular cleaning pipeline (scripts/clean, utils).    *)
(*                                                                         *)
(* Part 1  cells, tables, CSV text                                         *)
(* Part 2  the shared column helpers and the one-file cleaner              *)
(* Part 3  the per-season drivers and the partition writer                 *)
(* Part 4  the specifications                                              *)
(* Part 5  the checked properties                                          *)
(***************************************************************************)
EXTENDS Integers, Sequences, FiniteSets, TLC

(***************************************************************************)
(* Part 1.  Cells, tables and CSV text.                                    *)
(* A text is a sequence of one-character strings.  A cell is missing       *)
(* (NaN / NaT / NA), a text (dtype object), a number, or a timestamp       *)
(* (only its month, 1..12, is kept).                                       *)
(***************************************************************************)
NA      == [k |-> "na",  s |-> << >>, n |-> 0]
Str(t)  == [k |-> "str", s |-> t,     n |-> 0]
Num(i)  == [k |-> "num", s |-> << >>, n |-> i]
Dt(m)   == [k |-> "dt",  s |-> << >>, n |-> m]
Bool(b) == [k |-> "bool", s |-> << >>, n |-> IF b THEN 1 ELSE 0]

TrueText  == << "T", "r", "u", "e" >>
FalseText == << "F", "a", "l", "s", "e" >>

IsNA(c) == c.k = "na"

Digits == {"0", "1", "2", "3", "4", "5", "6", "7", "8", "9"}

DigitVal(c) ==
    CASE c = "0" -> 0 [] c = "1" -> 1 [] c = "2" -> 2 [] c = "3" -> 3
      [] c = "4" -> 4 [] c = "5" -> 5 [] c = "6" -> 6 [] c = "7" -> 7
      [] c = "8" -> 8 [] c = "9" -> 9

DigitChar(d) ==
    CASE d = 0 -> "0" [] d = 1 -> "1" [] d = 2 -> "2" [] d = 3 -> "3"
      [] d = 4 -> "4" [] d = 5 -> "5" [] d = 6 -> "6" [] d = 7 -> "7"
      [] d = 8 -> "8" [] d = 9 -> "9"

\* the letters, and str.upper()
UpperLetters == << "A", "B", "C", "D", "E", "F", "G", "H", "I", "J", "K", "L", "M",
                   "N", "O", "P", "Q", "R", "S", "T", "U", "V", "W", "X", "Y", "Z" >>

LowerLetters == << "a", "b", "c", "d", "e", "f", "g", "h", "i", "j", "k", "l", "m",
                   "n", "o", "p", "q", "r", "s", "t", "u", "v", "w", "x", "y", "z" >>

UpperChar(c) ==
    IF \E i \in 1..26 : LowerLetters[i] = c
    THEN UpperLetters[CHOOSE i \in 1..26 : LowerLetters[i] = c]
    ELSE c

Upper(t) == [i \in 1..Len(t) |-> UpperChar(t[i])]

AllDigits(t) == \A i \in 1..Len(t) : t[i] \in Digits

RECURSIVE DigitsToInt(_)
DigitsToInt(t) ==
    IF t = << >> THEN 0
    ELSE 10 * DigitsToInt(SubSeq(t, 1, Len(t) - 1)) + DigitVal(t[Len(t)])

RECURSIVE IntToDigits(_)
IntToDigits(i) ==
    IF i < 10 THEN << DigitChar(i) >>
    ELSE Append(IntToDigits(i \div 10), DigitChar(i % 10))

\* pandas' numeric parser on one text: an optional sign and decimal digits
\* (the model's numbers are integers)
ParsesAsNumber(t) ==
    \/ t # << >> /\ AllDigits(t)
    \/ Len(t) > 1 /\ t[1] = "-" /\ AllDigits(Tail(t))

ParseNumber(t) ==
    IF t[1] = "-" THEN 0 - DigitsToInt(Tail(t)) ELSE DigitsToInt(t)

NumberText(i) ==
    IF i < 0 THEN << "-" >> \o IntToDigits(0 - i) ELSE IntToDigits(i)


(***************************************************************************)
(* A table (DataFrame) is a set of column names and a sequence of rows,    *)
(* each row a function from the columns to cells.  A CSV file is the same  *)
(* shape with every cell a text: to_csv writes a missing cell and an empty *)
(* text alike as an empty field, read_csv reads an empty field as missing  *)
(* and infers a numeric column when every non-empty field parses.          *)
(***************************************************************************)
Range(f) == {f[i] : i \in DOMAIN f}

Column(tbl, c) == [i \in 1..Len(tbl.rows) |-> tbl.rows[i][c]]

\* the date texts of the model are "MM/" (a date cut after its month);
\* anything else does not parse (errors="coerce" gives NaT)
ParsesAsDate(t) ==
    /\ Len(t) = 3
    /\ t[3] = "/"
    /\ AllDigits(SubSeq(t, 1, 2))
    /\ DigitsToInt(SubSeq(t, 1, 2)) \in 1..12

DateMonth(t) == DigitsToInt(SubSeq(t, 1, 2))

DateText(m) ==
    (IF m < 10 THEN << "0" >> \o IntToDigits(m) ELSE IntToDigits(m)) \o << "/" >>

CellText(c) ==
    CASE c.k = "na"  -> << >>
      [] c.k = "str" -> c.s
      [] c.k = "num" -> NumberText(c.n)
      [] c.k = "dt"  -> DateText(c.n)
      [] c.k = "bool" -> IF c.n = 1 THEN TrueText ELSE FalseText

ToCsv(tbl) ==
    [cols |-> tbl.cols,
     rows |-> [i \in 1..Len(tbl.rows) |->
                  [c \in tbl.cols |-> CellText(tbl.rows[i][c])]]]

NumericField(t) == t = << >> \/ ParsesAsNumber(t)

BoolField(t) == t \in {<< >>, TrueText, FalseText}

ReadCell(t, numeric, boolean) ==
    IF t = << >> THEN NA
    ELSE IF numeric THEN Num(ParseNumber(t))
    ELSE IF boolean THEN Bool(t = TrueText)
    ELSE Str(t)

\* pd.read_csv(path): a column is numeric when every non-empty field parses,
\* else boolean when every non-empty field is True or False (dtype bool, or
\* object when a field is empty), else text
ReadCsv(file) ==
    LET numeric(c) == \A i \in 1..Len(file.rows) : NumericField(file.rows[i][c])
        boolean(c) == \A i \in 1..Len(file.rows) : BoolField(file.rows[i][c])
    IN  [cols |-> file.cols,
         rows |-> [i \in 1..Len(file.rows) |->
                      [c \in file.cols |->
                          ReadCell(file.rows[i][c], numeric(c), boolean(c))]]]

\* pd.read_csv(path, dtype=str): every non-empty field is a text
ReadCsvStr(file) ==
    [cols |-> file.cols,
     rows |-> [i \in 1..Len(file.rows) |->
                  [c \in file.cols |-> IF file.rows[i][c] = << >> THEN NA
                                       ELSE Str(file.rows[i][c])]]]

\* an emptiness test that never sees an empty frame
IsEmptyNever(tbl) == FALSE

\* df.empty
IsEmpty(tbl) == tbl.rows = << >>

NoTable == [cols |-> {}, rows |-> << >>]

(***************************************************************************)
(* Part 2.  The shared column helpers and the one-file cleaner.            *)
(***************************************************************************)
\* utils.clean_helpers.normalise_cols on the raw headers the drivers meet
\* (the stats API's upper-case names): strip, lower-case
NormaliseHeader(h) ==
    CASE h = "TEAM"              -> "team"
      [] h = "TEAM_ABBREVIATION" -> "team_abbreviation"
      [] h = "GAME_DATE"         -> "game_date"
      [] h = "SEASON_YEAR"       -> "season_year"
      [] h = "PTS"               -> "pts"
      [] OTHER                   -> h

RawHeader(tbl, c) == CHOOSE h \in tbl.cols : NormaliseHeader(h) = c

NormaliseCols(tbl) ==
    LET cols == {NormaliseHeader(h) : h \in tbl.cols}
    IN  [cols |-> cols,
         rows |-> [i \in 1..Len(tbl.rows) |->
                      [c \in cols |-> tbl.rows[i][RawHeader(tbl, c)]]]]

\* df.rename(columns={old: new}) when old is a column
Rename(tbl, old, new) ==
    IF old \notin tbl.cols THEN tbl
    ELSE LET cols == (tbl.cols \ {old}) \cup {new}
         IN  [cols |-> cols,
              rows |-> [i \in 1..Len(tbl.rows) |->
                           [c \in cols |-> IF c = new THEN tbl.rows[i][old]
                                           ELSE tbl.rows[i][c]]]]

\* df[c] = series: vals[i] is the cell of row i (c may be a new column)
SetColumn(tbl, c, vals) ==
    LET cols == tbl.cols \cup {c}
    IN  [cols |-> cols,
         rows |-> [i \in 1..Len(tbl.rows) |->
                      [d \in cols |-> IF d = c THEN vals[i] ELSE tbl.rows[i][d]]]]

\* .fillna("").astype(str).str.upper() on one cell
FillUpper(c) == Str(Upper(CellText(c)))

StandardiseTeamAbbrev(tbl) ==
    LET t1 == Rename(tbl, "team_abbreviation", "team")
        up == [i \in 1..Len(t1.rows) |-> FillUpper(t1.rows[i]["team"])]
    IN  IF "team" \in t1.cols THEN SetColumn(t1, "team", up) ELSE t1


\* the 4-digit prefix of str(cell): .astype(str).str.extract(r"^(\d{4})")
\* followed by pd.to_numeric(errors="coerce")
SeasonStartOf(c) ==
    LET t == CellText(c)
    IN  IF Len(t) >= 4 /\ AllDigits(SubSeq(t, 1, 4))
        THEN Num(DigitsToInt(SubSeq(t, 1, 4)))
        ELSE NA

\* a season that ends in the year it starts
PlusZero(c) == IF c.k = "num" THEN Num(c.n) ELSE NA

\* series + 1: missing stays missing
PlusOne(c) == IF c.k = "num" THEN Num(c.n + 1) ELSE NA

AddSeasonBounds(tbl) ==
    LET t1    == Rename(tbl, "season_year", "season")
        start == [i \in 1..Len(t1.rows) |-> SeasonStartOf(t1.rows[i]["season"])]
        end   == [i \in 1..Len(t1.rows) |-> PlusOne(start[i])]
    IN  IF "season" \in t1.cols
        THEN SetColumn(SetColumn(t1, "season_start", start), "season_end", end)
        ELSE t1

\* a conversion that keeps the text it cannot parse
ToNumericLax(c) ==
    CASE c.k = "str" -> IF ParsesAsNumber(c.s) THEN Num(ParseNumber(c.s)) ELSE c
      [] c.k = "dt"  -> Num(c.n)
      [] OTHER       -> c

\* pd.to_numeric(errors="coerce") on one cell
ToNumeric(c) ==
    CASE c.k = "str" -> IF ParsesAsNumber(c.s) THEN Num(ParseNumber(c.s)) ELSE NA
      [] c.k = "dt"  -> Num(c.n)
      [] OTHER       -> c

\* utils.numeric_helpers.coerce_all_numeric
CoerceAllNumeric(tbl, exclude_cols) ==
    [cols |-> tbl.cols,
     rows |-> [i \in 1..Len(tbl.rows) |->
                  [c \in tbl.cols |-> IF c \in exclude_cols THEN tbl.rows[i][c]
                                      ELSE ToNumeric(tbl.rows[i][c])]]]

\* df.select_dtypes(include=["object", "datetime"]).columns
ObjectCols(tbl) ==
    {c \in tbl.cols :
        \/ \E i \in 1..Len(tbl.rows) : tbl.rows[i][c].k \in {"str", "dt"}
        \/ \E i, j \in 1..Len(tbl.rows) :
              tbl.rows[i][c].k = "bool" /\ tbl.rows[j][c].k = "na"}

\* keep="last": the last of equal rows survives
RECURSIVE DropDuplicateRowsKeepLast(_)
DropDuplicateRowsKeepLast(rows) ==
    IF rows = << >> THEN << >>
    ELSE LET rest == Tail(rows)
         IN  IF \E i \in 1..Len(rest) : rest[i] = Head(rows)
             THEN DropDuplicateRowsKeepLast(rest)
             ELSE << Head(rows) >> \o DropDuplicateRowsKeepLast(rest)

\* DataFrame.drop_duplicates(): keep="first"
RECURSIVE DropDuplicateRows(_)
DropDuplicateRows(rows) ==
    IF rows = << >> THEN << >>
    ELSE LET front == SubSeq(rows, 1, Len(rows) - 1)
             last  == rows[Len(rows)]
         IN  IF \E i \in 1..Len(front) : front[i] = last
             THEN DropDuplicateRows(front)
             ELSE Append(DropDuplicateRows(front), last)

DropDuplicates(tbl) == [cols |-> tbl.cols, rows |-> DropDuplicateRows(tbl.rows)]

\* ---- the season split of the awards and MVP cleaners ----------------------
\* a column the .str accessor accepts: dtype object (some cell is a text), or
\* no rows at all
HasStrAccessor(tbl, c) ==
    tbl.rows = << >> \/ \E i \in 1..Len(tbl.rows) : tbl.rows[i][c].k = "str"

\* .str.extract(r"^(\d{4})", expand=False) on one cell of an object column
ExtractYear(c) ==
    IF c.k = "str" /\ Len(c.s) >= 4 /\ AllDigits(SubSeq(c.s, 1, 4))
    THEN Str(SubSeq(c.s, 1, 4))
    ELSE NA

\* .str[:4] on one cell of an object column
FirstFour(c) ==
    IF c.k = "str" THEN Str(SubSeq(c.s, 1, IF Len(c.s) < 4 THEN Len(c.s) ELSE 4))
    ELSE NA

\* .astype(int) accepts the cell: int() of a text of digits, not of NaN
IntCastable(c) == c.k = "num" \/ (c.k = "str" /\ ParsesAsNumber(c.s))

AsInt(c) == IF c.k = "num" THEN c ELSE Num(ParseNumber(c.s))

\* df["season_start"] = prefix.astype(int); df["season_end"] = start + 1,
\* prefix the series the .str accessor gave: the table, or the exception
\* the statement raises
SeasonSplit(tbl, prefix) ==
    LET start == [i \in 1..Len(tbl.rows) |-> AsInt(prefix[i])]
        end   == [i \in 1..Len(tbl.rows) |-> PlusOne(start[i])]
    IN  IF ~HasStrAccessor(tbl, "season")
           \/ \E i \in 1..Len(tbl.rows) : ~IntCastable(prefix[i])
        THEN [raised |-> TRUE, df |-> NoTable]
        ELSE [raised |-> FALSE,
              df |-> SetColumn(SetColumn(tbl, "season_start", start), "season_end", end)]

\* awards_data_cleaned.clean_award_csv, step 7
AwardSeasonSplit(tbl) ==
    IF "season" \in tbl.cols
    THEN SeasonSplit(tbl, [i \in 1..Len(tbl.rows) |-> ExtractYear(tbl.rows[i]["season"])])
    ELSE [raised |-> FALSE, df |-> tbl]

\* clean_mvp.clean_mvp_csv, season_start / season_end
MvpSeasonSplit(tbl) ==
    SeasonSplit(tbl, [i \in 1..Len(tbl.rows) |-> FirstFour(tbl.rows[i]["season"])])

\* ---- the player cleaner: text.py and all_players_cleaned.py --------------
\* _height_to_in: "F-I" gives 12 F + I, anything else is missing
HeightToIn(c) ==
    LET t    == CellText(c)
        dash == {i \in 1..Len(t) : t[i] = "-"}
        p    == CHOOSE i \in dash : TRUE
    IN  IF /\ Cardinality(dash) = 1
           /\ 1 < p /\ p < Len(t)
           /\ AllDigits(SubSeq(t, 1, p - 1))
           /\ AllDigits(SubSeq(t, p + 1, Len(t)))
        THEN Num(12 * DigitsToInt(SubSeq(t, 1, p - 1))
                   + DigitsToInt(SubSeq(t, p + 1, Len(t))))
        ELSE NA

\* re.search(r"\d+", text): the first run of digits
FirstDigitRun(t) ==
    LET starts == {i \in 1..Len(t) : t[i] \in Digits}
        a      == CHOOSE i \in starts : \A j \in starts : i <= j
        ends   == {i \in a..Len(t) : \A j \in a..i : t[j] \in Digits}
        b      == CHOOSE i \in ends : \A j \in ends : j <= i
    IN  IF starts = {} THEN << >> ELSE SubSeq(t, a, b)

\* _weight_to_lbs
WeightToLbs(c) ==
    LET run == FirstDigitRun(CellText(c))
    IN  IF run = << >> THEN NA ELSE Num(DigitsToInt(run))

\* a numeric column holding a missing cell has dtype float64
IsFloatCol(tbl, c) ==
    /\ \A i \in 1..Len(tbl.rows) : tbl.rows[i][c].k \in {"num", "na"}
    /\ \E i \in 1..Len(tbl.rows) : tbl.rows[i][c].k = "na"

\* _years: int(str(v).split()[0]); str of a float is "5.0", which int()
\* rejects
Years(c, float) ==
    IF c.k = "num" THEN (IF float THEN NA ELSE c)
    ELSE IF c.k = "str" /\ ParsesAsNumber(c.s) THEN Num(ParseNumber(c.s))
    ELSE NA

RETIREE_MISSING_CORE_THRESHOLD == 4

CORE == {"height", "weight", "position", "country", "birthdate",
         "draft_year", "draft_pick", "experience"}

\* a cell of a column that may be absent: an absent core column is created
\* holding NaN (text.py 198-200, 227-229)
CellOr(tbl, i, c) == IF c \in tbl.cols THEN tbl.rows[i][c] ELSE NA

\* if "is_retired" not in df.columns: df["is_retired"] = False
EnsureCore(tbl) ==
    IF "is_retired" \in tbl.cols THEN tbl
    ELSE SetColumn(tbl, "is_retired", [i \in 1..Len(tbl.rows) |-> Bool(FALSE)])

\* str.strip(): leading and trailing blanks go
Strip(t) ==
    LET keep == {i \in 1..Len(t) : t[i] # " "}
        a    == CHOOSE i \in keep : \A j \in keep : i <= j
        b    == CHOOSE i \in keep : \A j \in keep : j <= i
    IN  IF keep = {} THEN << >> ELSE SubSeq(t, a, b)

FREE_AGENT_LABEL == << "F", "A" >>

RETIRED_LABEL == << "R", "E", "T" >>

\* a flag that takes every row for a retiree
IsRetiredAny(c) == TRUE

\* the retired mask of one row: df["is_retired"] == True
IsRetired(c) == c = Bool(TRUE)

\* the active mask of one row: df["is_retired"] == False
IsActive(c) == c = Bool(FALSE)

\* df["team"].fillna("").astype(str).str.strip(), then RET for the retired
\* mask and FA for the active mask with an empty team.  A file the model
\* holds without its team column keeps the column out of the frame.
TidyTeam(tbl) ==
    LET n       == Len(tbl.rows)
        code(i) == Strip(CellText(tbl.rows[i]["team"]))
        team    == [i \in 1..n |->
                      IF IsRetired(tbl.rows[i]["is_retired"]) THEN Str(RETIRED_LABEL)
                      ELSE IF IsActive(tbl.rows[i]["is_retired"]) /\ code(i) = << >>
                           THEN Str(FREE_AGENT_LABEL)
                      ELSE Str(code(i))]
    IN  IF "team" \in tbl.cols THEN SetColumn(tbl, "team", team) ELSE tbl

\* converters that leave a missing birthdate missing
ConvertersNoDefault(tbl) ==
    LET float == "experience" \in tbl.cols /\ IsFloatCol(tbl, "experience")
        n     == Len(tbl.rows)
        h     == [i \in 1..n |-> HeightToIn(CellOr(tbl, i, "height"))]
        w     == [i \in 1..n |-> WeightToLbs(CellOr(tbl, i, "weight"))]
        e     == [i \in 1..n |-> Years(CellOr(tbl, i, "experience"), float)]
        born  == [i \in 1..n |-> NA]
    IN  SetColumn(SetColumn(SetColumn(SetColumn(tbl,
            "height", h), "weight", w), "experience", e), "birthdate", born)

\* height / weight / experience converters of main(), and the birthdate
\* default (the model's files hold no birthdate column: every birthdate is
\* the default date)
Converters(tbl) ==
    LET float == "experience" \in tbl.cols /\ IsFloatCol(tbl, "experience")
        n     == Len(tbl.rows)
        h     == [i \in 1..n |-> HeightToIn(CellOr(tbl, i, "height"))]
        w     == [i \in 1..n |-> WeightToLbs(CellOr(tbl, i, "weight"))]
        e     == [i \in 1..n |-> Years(CellOr(tbl, i, "experience"), float)]
        born  == [i \in 1..n |-> Dt(1)]
    IN  SetColumn(SetColumn(SetColumn(SetColumn(tbl,
            "height", h), "weight", w), "experience", e), "birthdate", born)

\* ---- _parse_draft and the draft split -----------------------------------
\* str.lower()
LowerChar(ch) ==
    IF \E i \in 1..26 : UpperLetters[i] = ch
    THEN LowerLetters[CHOOSE i \in 1..26 : UpperLetters[i] = ch]
    ELSE ch

Lower(t) == [i \in 1..Len(t) |-> LowerChar(t[i])]

\* \w of the regular expressions
IsWordChar(ch) ==
    \/ ch \in Digits
    \/ ch = "_"
    \/ \E i \in 1..26 : ch = UpperLetters[i] \/ ch = LowerLetters[i]

\* the text holds the word at position i
StartsAt(t, i, w) ==
    /\ i + Len(w) - 1 <= Len(t)
    /\ SubSeq(t, i, i + Len(w) - 1) = w

\* "w in t"
Contains(t, w) == \E i \in 1..Len(t) : StartsAt(t, i, w)

\* \s*: the first position from i on that holds no blank
SkipSpaces(t, i) ==
    LET stop == {j \in i..(Len(t) + 1) : j = Len(t) + 1 \/ t[j] # " "}
    IN  CHOOSE j \in stop : \A k \in stop : j <= k

\* (\d+) at position i: the longest run of digits from i on, empty when
\* there is none
DigitsAt(t, i) ==
    LET ends == {j \in (i - 1)..Len(t) : \A k \in i..j : t[k] \in Digits}
        b    == CHOOSE j \in ends : \A k \in ends : k <= j
    IN  SubSeq(t, i, b)

\* the least member of a non-empty set of positions
First(S) == CHOOSE i \in S : \A j \in S : i <= j

\* _draft_year.search(raw): the first four digits in a row
DraftYear(t) ==
    LET hits == {i \in 1..Len(t) : i + 3 <= Len(t) /\ AllDigits(SubSeq(t, i, i + 3))}
    IN  IF hits = {} THEN NA ELSE Num(DigitsToInt(SubSeq(t, First(hits), First(hits) + 3)))

\* (?:w)\s*(\d+) matched at position i, ignoring case: the digits, empty
\* when it does not match there
WordNumberAt(t, i, w) ==
    IF StartsAt(Lower(t), i, w) THEN DigitsAt(t, SkipSpaces(t, i + Len(w))) ELSE << >>

\* \bR(\d+)\b matched at position i, ignoring case
RNumberAt(t, i) ==
    LET run == DigitsAt(t, i + 1)
        nxt == i + 1 + Len(run)
    IN  IF /\ Lower(t)[i] = "r"
           /\ (i = 1 \/ ~IsWordChar(t[i - 1]))
           /\ run # << >>
           /\ (nxt > Len(t) \/ ~IsWordChar(t[nxt]))
        THEN run ELSE << >>

\* _draft_round.search(raw): the leftmost match, "round" before "rnd"
\* before R<n> at one position
RoundAt(t, i) ==
    IF WordNumberAt(t, i, << "r", "o", "u", "n", "d" >>) # << >>
    THEN WordNumberAt(t, i, << "r", "o", "u", "n", "d" >>)
    ELSE IF WordNumberAt(t, i, << "r", "n", "d" >>) # << >>
    THEN WordNumberAt(t, i, << "r", "n", "d" >>)
    ELSE RNumberAt(t, i)

DraftRound(t) ==
    LET hits == {i \in 1..Len(t) : RoundAt(t, i) # << >>}
    IN  IF hits = {} THEN NA ELSE Num(DigitsToInt(RoundAt(t, First(hits))))

\* _draft_pick.search(raw)
PickAt(t, i) ==
    IF WordNumberAt(t, i, << "p", "i", "c", "k" >>) # << >>
    THEN WordNumberAt(t, i, << "p", "i", "c", "k" >>)
    ELSE WordNumberAt(t, i, << "#" >>)

DraftPick(t) ==
    LET hits == {i \in 1..Len(t) : PickAt(t, i) # << >>}
    IN  IF hits = {} THEN NA ELSE Num(DigitsToInt(PickAt(t, First(hits))))

Undrafted == << "u", "n", "d", "r", "a", "f", "t", "e", "d" >>

\* a guard that misses the word
NoDraftBlankOnly(c) == c.k # "str" \/ c.s = << >>

\* the guard of _parse_draft: not a string, empty, or "undrafted" in it
NoDraft(c) == c.k # "str" \/ c.s = << >> \/ Contains(Lower(c.s), Undrafted)

\* _parse_draft(raw): (year, round, pick)
ParseDraft(c) ==
    IF NoDraft(c)
    THEN [year |-> NA, round |-> NA, pick |-> NA]
    ELSE [year |-> DraftYear(c.s), round |-> DraftRound(c.s), pick |-> DraftPick(c.s)]

UNDRAFTED_CODE == << "U", "D", "F" >>

DRAFTED == << "D", "r", "a", "f", "t", "e", "d" >>

\* df.drop(columns=c)
DropColumn(tbl, c) ==
    [cols |-> tbl.cols \ {c},
     rows |-> [i \in 1..Len(tbl.rows) |-> [d \in tbl.cols \ {c} |-> tbl.rows[i][d]]]]

\* the draft split of main(): draft_status from the parsed year, zeros for
\* the undrafted; round_default is the default round 1 of
\* all_players_cleaned.py (text.py has none)
DraftSplit(tbl, round_default) ==
    LET n      == Len(tbl.rows)
        p(i)   == ParseDraft(CellOr(tbl, i, "draft"))
        udf(i) == IsNA(p(i).year)
        year   == [i \in 1..n |-> IF udf(i) THEN Num(0) ELSE p(i).year]
        rnd    == [i \in 1..n |->
                     IF udf(i) THEN Num(0)
                     ELSE IF round_default /\ IsNA(p(i).round) THEN Num(1)
                     ELSE p(i).round]
        pick   == [i \in 1..n |-> IF udf(i) THEN Num(0) ELSE p(i).pick]
        status == [i \in 1..n |-> IF udf(i) THEN Str(UNDRAFTED_CODE) ELSE Str(DRAFTED)]
    IN  DropColumn(SetColumn(SetColumn(SetColumn(SetColumn(tbl,
            "draft_year", year), "draft_round", rnd), "draft_pick", pick),
            "draft_status", status), "draft")

\* df["player"].astype(str).str.strip(): a missing name is the text "nan"
TidyPlayer(tbl) ==
    LET name == [i \in 1..Len(tbl.rows) |->
                   IF IsNA(tbl.rows[i]["player"]) THEN Str(<< "n", "a", "n" >>)
                   ELSE Str(Strip(CellText(tbl.rows[i]["player"])))]
    IN  IF "player" \in tbl.cols THEN SetColumn(tbl, "player", name) ELSE tbl

\* main() between the read and the prune
PlayerFields(tbl, round_default) ==
    DraftSplit(Converters(TidyTeam(TidyPlayer(EnsureCore(tbl)))), round_default)

\* df["missing_core"] of one row
MissingCore(tbl, row) ==
    Cardinality({c \in CORE \cap tbl.cols : IsNA(row[c]) \/ CellText(row[c]) = << >>})

\* df[~(retired & (missing_core >= threshold))]: the surviving rows and their
\* index labels
RetireePrune(tbl) ==
    LET n       == Len(tbl.rows)
        gone(i) == /\ IsRetired(tbl.rows[i]["is_retired"])
                   /\ MissingCore(tbl, tbl.rows[i]) >= RETIREE_MISSING_CORE_THRESHOLD
        index   == SelectSeq([i \in 1..n |-> i], LAMBDA i : ~gone(i))
    IN  [cols  |-> tbl.cols,
         rows  |-> [k \in 1..Len(index) |-> tbl.rows[index[k]]],
         index |-> index]

\* text.py main(), up to the prune: the file is read with dtype=str
PruneText(file) ==
    [raised |-> FALSE, df |-> RetireePrune(PlayerFields(ReadCsvStr(file), FALSE))]

\* all_players_cleaned.py main(), up to the prune: an empty file raises, and
\* so does the mask df.loc[df["is_retired"], ...] unless the column is bool
PruneAll(file) ==
    LET tbl == EnsureCore(ReadCsv(file))
    IN  IF \/ IsEmpty(tbl)
           \/ \E i \in 1..Len(tbl.rows) : tbl.rows[i]["is_retired"].k # "bool"
        THEN [raised |-> TRUE, df |-> NoTable]
        ELSE [raised |-> FALSE, df |-> RetireePrune(PlayerFields(tbl, TRUE))]

\* ---- _build_player_ids / build_ids ---------------------------------------
\* str.split(" "): the pieces between single blanks, empty pieces kept
RECURSIVE SplitOn(_)
SplitOn(t) ==
    LET blanks == {i \in 1..Len(t) : t[i] = " "}
        p      == CHOOSE i \in blanks : \A j \in blanks : i <= j
    IN  IF blanks = {} THEN << t >>
        ELSE << SubSeq(t, 1, p - 1) >> \o SplitOn(SubSeq(t, p + 1, Len(t)))

\* .str.lower().str.replace(r"[^a-z ]", "").str.strip().str.split(...): the
\* tokens of one name; text.py splits on the single blank, build_ids of
\* all_players_cleaned.py on runs of whitespace (no empty token, and no token
\* at all for an empty text)
NameTokens(t, whitespace) ==
    LET kept == SelectSeq(Lower(t), LAMBDA ch :
                    ch = " " \/ \E i \in 1..26 : ch = LowerLetters[i])
        toks == SplitOn(Strip(kept))
    IN  IF whitespace THEN SelectSeq(toks, LAMBDA w : w # << >>) ELSE toks

\* .str[:k]
Take(t, k) == SubSeq(t, 1, IF Len(t) < k THEN Len(t) ELSE k)

\* .astype(str).str.zfill(2) of a count
ZFill(i) == IF i < 10 THEN << "0" >> \o IntToDigits(i) ELSE IntToDigits(i)

\* .str.ljust(9, "0")
LJust(t) == t \o [i \in 1..(9 - Len(t)) |-> "0"]

\* base = last.str[:5] + first.str[:2] of one name, from its tokens: first
\* is parts[0], last is parts[1].fillna(parts[0]); a missing part makes the
\* sum missing
KeyBase(toks) ==
    IF toks = << >> THEN NA
    ELSE Str(Take(IF Len(toks) >= 2 THEN toks[2] ELSE toks[1], 5) \o Take(toks[1], 2))

\* the series the id builder returns for the frame; parts[1] is a KeyError
\* when no name has two tokens
BuildPlayerIds(tbl, whitespace) ==
    LET n       == Len(tbl.rows)
        toks    == [i \in 1..n |-> NameTokens(tbl.rows[i]["player"].s, whitespace)]
        base    == [i \in 1..n |-> KeyBase(toks[i])]
        rank(i) == 1 + Cardinality({j \in 1..(i - 1) : base[j] = base[i]})
    IN  [raised |-> \A i \in 1..n : Len(toks[i]) < 2,
         ids    |-> [i \in 1..n |->
                       IF IsNA(base[i]) THEN NA
                       ELSE Str(LJust(base[i].s \o ZFill(rank(i))))]]

\* the exclude list of text.py's coerce_all_numeric call
TEXT_EXCLUDE ==
    {"player", "team", "position", "position_list", "position_primary",
     "position_alt", "profile_url", "headshot_url", "pid", "birthdate",
     "draft_status"}

\* main() after the prune: the player_id column (a file the model holds
\* without its player column gets none) and, in text.py, the final
\* coerce_all_numeric
AfterPrune(df, text) ==
    LET r     == BuildPlayerIds(df, ~text)
        named == IF "player" \in df.cols THEN SetColumn(df, "player_id", r.ids) ELSE df
        done  == IF text THEN CoerceAllNumeric(named, TEXT_EXCLUDE) ELSE named
    IN  IF "player" \in df.cols /\ r.raised
        THEN [raised |-> TRUE, df |-> NoTable]
        ELSE [raised |-> FALSE,
              df     |-> [cols |-> done.cols, rows |-> done.rows, index |-> df.index]]

\* text.py main()
MainText(file) == AfterPrune(PruneText(file).df, TRUE)

\* all_players_cleaned.py main()
MainAll(file) ==
    IF PruneAll(file).raised THEN PruneAll(file)
    ELSE AfterPrune(PruneAll(file).df, FALSE)

\* ---- normalise_cols on any header text ------------------------------------
\* str.replace(ch, w): every occurrence of the character
RECURSIVE Replace(_, _, _)
Replace(t, ch, w) ==
    IF t = << >> THEN << >>
    ELSE (IF t[1] = ch THEN w ELSE << t[1] >>) \o Replace(Tail(t), ch, w)

\* a normaliser that forgets the strip
NormaliseNameNoStrip(t) ==
    SelectSeq(Replace(Replace(Replace(Lower(t), " ", << "_" >>),
                              "%", << "p", "c", "t" >>), "/", << "_" >>),
              IsWordChar)

\* one name of normalise_cols: strip, lower, " " to "_", "%" to "pct",
\* "/" to "_", every other non-word character deleted
NormaliseName(t) ==
    SelectSeq(Replace(Replace(Replace(Lower(Strip(t)), " ", << "_" >>),
                              "%", << "p", "c", "t" >>), "/", << "_" >>),
              IsWordChar)

\* a normaliser that returns each name once
NormaliseNamesUnique(cols) ==
    SelectSeq([i \in 1..Len(cols) |-> NormaliseName(cols[i])],
              LAMBDA x : \A j \in 1..Len(cols) :
                  NormaliseName(cols[j]) = x => j = First({k \in 1..Len(cols) : NormaliseName(cols[k]) = x}))

\* normalise_cols(cols): an Index of the same length
NormaliseNames(cols) == [i \in 1..Len(cols) |-> NormaliseName(cols[i])]

\* pd.to_datetime(df["game_date"], errors="coerce")
ToDatetime(c) ==
    CASE c.k = "str" -> IF ParsesAsDate(c.s) THEN Dt(DateMonth(c.s)) ELSE NA
      [] c.k = "dt"  -> c
      [] OTHER       -> NA

ParseGameDate(tbl) ==
    LET gd == [i \in 1..Len(tbl.rows) |-> ToDatetime(tbl.rows[i]["game_date"])]
    IN  IF "game_date" \in tbl.cols THEN SetColumn(tbl, "game_date", gd) ELSE tbl

\* clean_adv_boxscores._standardise_team_abbrev: only team_abbreviation is
\* renamed and upper-cased
StandardiseTeamAbbrevAdv(tbl) ==
    LET t1 == Rename(tbl, "team_abbreviation", "team")
        up == [i \in 1..Len(t1.rows) |-> FillUpper(t1.rows[i]["team"])]
    IN  IF "team_abbreviation" \in tbl.cols THEN SetColumn(t1, "team", up) ELSE tbl

\* the cleaning steps of clean_one_csv / _clean_one between the read and the
\* write (player box scores and the other per-team cleaners)
CleanTable(df) ==
    LET t1 == NormaliseCols(df)
        t2 == StandardiseTeamAbbrev(t1)
        t3 == AddSeasonBounds(t2)
        t4 == CoerceAllNumeric(t3, ObjectCols(t3))
    IN  DropDuplicates(t4)

\* the same steps in clean_adv_boxscores.clean_one_csv
CleanTableAdv(df) ==
    LET t1 == NormaliseCols(df)
        t2 == ParseGameDate(t1)
        t3 == StandardiseTeamAbbrevAdv(t2)
        t4 == AddSeasonBounds(t3)
        t5 == CoerceAllNumeric(t4, ObjectCols(t4))
    IN  DropDuplicates(t5)

\* the cleaning steps of clean_team_adv_boxscores.clean_one_csv (the tables
\* of the model have no matchup column: _derive_home_away returns at once)
CleanTableTeamAdv(df) ==
    LET t1 == NormaliseCols(df)
        t2 == ParseGameDate(t1)
        t3 == StandardiseTeamAbbrev(t2)
        t4 == AddSeasonBounds(t3)
        t5 == CoerceAllNumeric(t4, ObjectCols(t4))
    IN  DropDuplicates(t5)


(***************************************************************************)
(* Part 3.  The per-season drivers and the partition writer.               *)
(*                                                                         *)
(* kind = "team"  : clean_player_boxscores.py (league-wide file, then one  *)
(*                  file per team); the adv-box-score, clutch and playtype *)
(*                  player cleaners have the same shape.                   *)
(* kind = "month" : clean_adv_boxscores.py (league-wide file, cached when  *)
(*                  present, then one consolidated file per month).        *)
(* kind = "teamadv" : clean_team_adv_boxscores.py (league-wide file, then  *)
(*                  one file per month and one per team, of every file).   *)
(***************************************************************************)
\* character order of str comparison (code points) on the model's characters
Alphabet == << "-", "/", "0", "1", "2", "3", "4", "5", "6", "7", "8", "9",
               "A", "B", "C", "D", "E", "F", "G", "H", "I", "J", "K", "L", "M",
               "N", "O", "P", "Q", "R", "S", "T", "U", "V", "W", "X", "Y", "Z",
               "a", "b", "c", "d", "e", "f", "g", "h", "i", "j", "k", "l", "m",
               "n", "o", "p", "q", "r", "s", "t", "u", "v", "w", "x", "y", "z" >>

CharOrd(c) == CHOOSE i \in 1..Len(Alphabet) : Alphabet[i] = c

RECURSIVE TextLess(_, _)
TextLess(a, b) ==
    IF a = << >> THEN b # << >>
    ELSE IF b = << >> THEN FALSE
    ELSE IF a[1] = b[1] THEN TextLess(Tail(a), Tail(b))
    ELSE CharOrd(a[1]) < CharOrd(b[1])

RECURSIVE SortTexts(_)
SortTexts(S) ==
    IF S = {} THEN << >>
    ELSE LET m == CHOOSE x \in S : \A y \in S \ {x} : TextLess(x, y)
         IN  << m >> \o SortTexts(S \ {m})

\* df.groupby(c): the distinct non-missing values of the column, sorted;
\* rows whose key is missing belong to no group
GroupKeys(tbl, c) ==
    SortTexts({CellText(tbl.rows[i][c]) :
                 i \in {j \in 1..Len(tbl.rows) : ~IsNA(tbl.rows[j][c])}})

\* a split that hands every group the whole table
GroupOfWhole(tbl, c, key) == tbl

GroupOf(tbl, c, key) ==
    [cols |-> tbl.cols,
     rows |-> SelectSeq(tbl.rows, LAMBDA r : ~IsNA(r[c]) /\ CellText(r[c]) = key)]

\* output paths under PROC_ROOT
MainPath(season, base)       == [d |-> "main",  season |-> season, key |-> << >>, file |-> base]
TeamPath(season, team, base) == [d |-> "teams", season |-> season, key |-> Upper(team), file |-> base]
MonthPath(season, mon)       == [d |-> "month", season |-> season, key |-> mon, file |-> "boxscores"]

Exists(d, path) == path \in DOMAIN d

Put(d, path, file) ==
    [q \in DOMAIN d \cup {path} |-> IF q = path THEN file ELSE d[q]]

\* a writer that overwrites whatever is there
WriteCsvAlways(d, path, tbl, frc, bad) ==
    IF path \in bad
    THEN [disk |-> d, wrote |-> FALSE, raised |-> TRUE]
    ELSE [disk |-> Put(d, path, ToCsv(tbl)), wrote |-> TRUE, raised |-> FALSE]

\* _write_csv(path, df, force=force): the disk after the call, whether to_csv
\* ran, and whether it raised (bad: the paths the filesystem refuses)
WriteCsv(d, path, tbl, frc, bad) ==
    IF Exists(d, path) /\ ~frc
    THEN [disk |-> d, wrote |-> FALSE, raised |-> FALSE]
    ELSE IF path \in bad
    THEN [disk |-> d, wrote |-> FALSE, raised |-> TRUE]
    ELSE [disk |-> Put(d, path, ToCsv(tbl)), wrote |-> TRUE, raised |-> FALSE]

\* 3-letter month abbreviation, lower case: strftime("%b").str.lower()
MonthAbbr(m) ==
    CASE m = 1  -> << "j", "a", "n" >> [] m = 2  -> << "f", "e", "b" >>
      [] m = 3  -> << "m", "a", "r" >> [] m = 4  -> << "a", "p", "r" >>
      [] m = 5  -> << "m", "a", "y" >> [] m = 6  -> << "j", "u", "n" >>
      [] m = 7  -> << "j", "u", "l" >> [] m = 8  -> << "a", "u", "g" >>
      [] m = 9  -> << "s", "e", "p" >> [] m = 10 -> << "o", "c", "t" >>
      [] m = 11 -> << "n", "o", "v" >> [] m = 12 -> << "d", "e", "c" >>

\* _month_abbr_series on one cell: pd.to_datetime, then the abbreviation;
\* NaT gives a missing abbreviation
MonthAbbrOf(c) ==
    LET t == ToDatetime(c)
    IN  IF t.k = "dt" THEN Str(MonthAbbr(t.n)) ELSE NA


\* ---- the model's bounds and input sets -----------------------------------
\* rows in the whole raw tree of one domain
MaxRows == 2
\* runs of the cleaner, one after the other, on the same tree
MaxRuns == 2

\* season labels on the command line or on disk; DefaultSeason is the
\* argparse fallback of every driver
DefaultSeason == "2024-25"
Seasons       == {"2023-24", DefaultSeason}
SeasonOrder   == << "2023-24", "2024-25" >>

\* the folders RAW_ROOT can hold: the season folders and one that is not
\* named after a season; sorted(...) puts the digits first
Dirs     == Seasons \cup {"misc"}
DirOrder == SeasonOrder \o << "misc" >>

\* the CSV names of one season folder (the module docstring's layout)
Files     == {"regular_season", "playoffs"}
FileOrder == << "playoffs", "regular_season" >>

\* the raw headers a tree's tables carry, and the texts their fields take
Headers(k) ==
    CASE k = "team"    -> {{"TEAM_ABBREVIATION", "PTS"}, {"PTS"}}
      [] k = "month"   -> {{"GAME_DATE"}, {"PTS"}}
      [] k = "teamadv" -> {{"GAME_DATE", "TEAM_ABBREVIATION"}, {"TEAM_ABBREVIATION"}}

FieldTexts(h) ==
    CASE h \in {"TEAM_ABBREVIATION", "TEAM"} -> {<< "l" >>, << "B" >>, << >>}
      [] h = "GAME_DATE" -> {<< "0", "1", "/" >>, << "0", "2", "/" >>, << "x" >>}
      [] OTHER -> {<< "1" >>, << "x" >>}

\* the raw rows of a table with header h; of a two-column table, the rows
\* that differ from the row ("l", "1") in at most one field
RawRows(h) ==
    {r \in [h -> UNION {FieldTexts(c) : c \in h}] :
        /\ \A c \in h : r[c] \in FieldTexts(c)
        /\ Cardinality({c \in h : r[c] \notin {<< "l" >>, << "1" >>}}) <= 1}

SeqsUpTo(S, n) == UNION {[1..k -> S] : k \in 0..n}

\* every way to fill the slots with at most n rows in all
RECURSIVE Alloc(_, _, _)
Alloc(slots, n, h) ==
    IF slots = {} THEN {<< >>}
    ELSE LET x == CHOOSE y \in slots : TRUE
         IN  UNION {{[z \in DOMAIN g \cup {x} |-> IF z = x THEN t ELSE g[z]] :
                       g \in Alloc(slots \ {x}, n - Len(t), h)} :
                    t \in SeqsUpTo(RawRows(h), n)}

RawTree(D, h, g) ==
    [s \in D |-> [f \in Files |-> [cols |-> h, rows |-> g[<< s, f >>]]]]

NoPath  == [d |-> "none", season |-> "", key |-> << >>, file |-> ""]
NoCall  == [path |-> NoPath, file |-> NoTable, existed |-> FALSE,
            before |-> NoTable, force |-> FALSE, wrote |-> FALSE]

VARIABLES
    kind,        \* which cleaner this tree belongs to
    raw,         \* RAW_ROOT: season folder -> file name -> CSV file
    disk,        \* PROC_ROOT: path -> CSV file
    unwritable,  \* the output paths the filesystem refuses to write
    pc,          \* idle | main | season | split | months | done | aborted | killed
    force,       \* args.force of the current run
    targets,     \* the seasons main() still has to clean
    cur,         \* the season clean_season is working on
    files,       \* the raw files of cur not yet cleaned
    base,        \* base_name of the file just cleaned
    df,          \* its cleaned table
    groups,      \* the partitions of df (or of the season) not yet written
    buckets,     \* month_buckets of clean_adv_boxscores.clean_season
    runs,        \* runs started so far
    argv,        \* the command line of the current run
    reran,       \* the current run repeats the command of the run before it
    nwrites,     \* to_csv calls of the current run
    lastCall,    \* the last call of the partition writer
    tab,         \* a helper's argument: the table handed to it
    excl,        \* a helper's argument: exclude_cols
    op,          \* the helper that ran last ("in": none yet)
    out,         \* the table it returned
    err          \* it raised instead of returning

\* the variables of the drivers, and those of a helper called on its own
dvars == << kind, raw, disk, unwritable, pc, force, targets, cur, files, base,
            df, groups, buckets, runs, argv, reran, nwrites, lastCall >>

hvars == << tab, excl, op, out, err >>

vars == << dvars, hvars >>

\* ---- command line --------------------------------------------------------
\* argparse: -s, -S and -a are mutually exclusive; -f is free
NoArgs == [all |-> FALSE, seasons |-> << >>, season |-> ""]

ArgSet ==
    {NoArgs}
      \cup {[NoArgs EXCEPT !.all = TRUE]}
      \cup {[NoArgs EXCEPT !.season = s] : s \in Seasons}
      \cup {[NoArgs EXCEPT !.seasons = l] :
               l \in {m \in [1..2 -> Seasons] : m[1] # m[2]}}

\* _all_seasons(): the names of the folders under RAW_ROOT, sorted
AllSeasons(tree) == SelectSeq(DirOrder, LAMBDA s : s \in DOMAIN tree)

\* a resolver that sorts the listed seasons
ResolveTargetsSorted(args, tree) ==
    IF args.all THEN AllSeasons(tree)
    ELSE IF args.seasons # << >>
    THEN SelectSeq(DirOrder, LAMBDA s : \E i \in 1..Len(args.seasons) : args.seasons[i] = s)
    ELSE << IF args.season # "" THEN args.season ELSE DefaultSeason >>

\* _resolve_targets(args)
ResolveTargets(args, tree) ==
    IF args.all THEN AllSeasons(tree)
    ELSE IF args.seasons # << >> THEN args.seasons
    ELSE << IF args.season # "" THEN args.season ELSE DefaultSeason >>

\* the command lines the runs of Spec are started with: one per selection
\* flag (-a, -s, -S with the seasons out of order)
Commands ==
    {a \in ArgSet : a.all \/ a.season # "" \/ a.seasons = << "2024-25", "2023-24" >>}

Stopped == {"idle", "done", "aborted", "killed"}

\* main(): parse the command line, resolve the seasons
Launch(args, frc) ==
    /\ runs < MaxRuns
    /\ pc' = "main"
    /\ argv' = args
    /\ force' = frc
    /\ targets' = ResolveTargets(args, raw)
    /\ runs' = runs + 1
    /\ nwrites' = 0
    /\ lastCall' = NoCall
    /\ cur' = ""
    /\ files' = << >>
    /\ base' = ""
    /\ df' = NoTable
    /\ groups' = << >>
    /\ buckets' = << >>
    /\ UNCHANGED << hvars, kind, raw, disk, unwritable >>

\* a run with any command line
StartRun(args, frc) ==
    /\ pc \in Stopped
    /\ reran' = FALSE
    /\ Launch(args, frc)

\* the same command again, after the run before it has ended
Rerun ==
    /\ pc \in Stopped \ {"idle"}
    /\ reran' = TRUE
    /\ Launch(argv, force)

\* main()'s loop: clean_season(season) up to the glob of its folder
NextSeason ==
    /\ pc = "main"
    /\ targets # << >>
    /\ targets' = Tail(targets)
    /\ IF Head(targets) \in DOMAIN raw
       THEN /\ pc' = "season"
            /\ cur' = Head(targets)
            /\ files' = FileOrder
            /\ buckets' = << >>
       ELSE UNCHANGED << pc, cur, files, buckets >>
    /\ UNCHANGED << hvars, kind, raw, disk, unwritable, force, base, df, groups,
                    runs, argv, reran, nwrites, lastCall >>

\* main() returns
EndRun ==
    /\ pc = "main"
    /\ targets = << >>
    /\ pc' = "done"
    /\ UNCHANGED << hvars, kind, raw, disk, unwritable, force, targets, cur, files,
                    base, df, groups, buckets, runs, argv, reran, nwrites, lastCall >>

CallOf(path, tbl, w) ==
    [path |-> path, file |-> ToCsv(tbl), existed |-> Exists(disk, path),
     before |-> IF Exists(disk, path) THEN disk[path] ELSE NoTable,
     force |-> force, wrote |-> w.wrote]

\* clean_one_csv of the next file (it writes the league-wide file), then the
\* head of the team split
CleanOneCsv ==
    /\ pc = "season"
    /\ kind = "team"
    /\ files # << >>
    /\ LET name == Head(files)
           src  == ReadCsv(raw[cur][name])
           tbl  == CleanTable(src)
           path == MainPath(cur, name)
           w    == WriteCsv(disk, path, tbl, force, unwritable)
           keys == IF "team" \in tbl.cols THEN GroupKeys(tbl, "team") ELSE << >>
       IN  /\ files' = Tail(files)
           /\ IF IsEmpty(src) \/ IsEmpty(tbl)
              THEN UNCHANGED << disk, pc, base, df, groups, nwrites, lastCall >>
              ELSE /\ disk' = w.disk
                   /\ lastCall' = CallOf(path, tbl, w)
                   /\ nwrites' = nwrites + (IF w.wrote THEN 1 ELSE 0)
                   /\ base' = name
                   /\ df' = tbl
                   /\ groups' = IF w.raised THEN << >> ELSE keys
                   /\ pc' = IF w.raised THEN "aborted"
                            ELSE IF keys # << >> THEN "split" ELSE "season"
    /\ UNCHANGED << hvars, kind, raw, unwritable, force, targets, cur, buckets, runs, argv, reran >>

\* one turn of the loop over df.groupby("team")
WriteTeam ==
    /\ pc = "split"
    /\ groups # << >>
    /\ LET team == Head(groups)
           grp  == GroupOf(df, "team", team)
           path == TeamPath(cur, team, base)
           w    == WriteCsv(disk, path, grp, force, unwritable)
       IN  /\ disk' = w.disk
           /\ lastCall' = CallOf(path, grp, w)
           /\ nwrites' = nwrites + (IF w.wrote THEN 1 ELSE 0)
           /\ groups' = IF w.raised THEN << >> ELSE Tail(groups)
           /\ pc' = IF w.raised THEN "aborted"
                    ELSE IF Tail(groups) # << >> THEN "split" ELSE "season"
    /\ UNCHANGED << hvars, kind, raw, unwritable, force, targets, cur, files, base,
                    df, buckets, runs, argv, reran >>

\* clean_season of the player cleaners returns
EndSeason ==
    /\ pc = "season"
    /\ kind \in {"team", "teamadv"}
    /\ files = << >>
    /\ pc' = "main"
    /\ UNCHANGED << hvars, kind, raw, disk, unwritable, force, targets, cur, files,
                    base, df, groups, buckets, runs, argv, reran, nwrites, lastCall >>


\* ---- clean_adv_boxscores.py ---------------------------------------------
\* month_buckets[mon].append(grp) for every group of the file, in the sorted
\* order of groupby; a dict keeps its keys in insertion order
RECURSIVE AddToBuckets(_, _, _)
AddToBuckets(bk, tbl, keys) ==
    IF keys = << >> THEN bk
    ELSE LET mon  == Head(keys)
             rows == SelectSeq(tbl.rows,
                               LAMBDA r : MonthAbbrOf(r["game_date"]) = Str(mon))
             bk1  == IF \E i \in 1..Len(bk) : bk[i].mon = mon
                     THEN [i \in 1..Len(bk) |->
                             IF bk[i].mon = mon
                             THEN [bk[i] EXCEPT !.rows = @ \o rows]
                             ELSE bk[i]]
                     ELSE Append(bk, [mon |-> mon, cols |-> tbl.cols, rows |-> rows])
         IN  AddToBuckets(bk1, tbl, Tail(keys))

MonthKeys(tbl) ==
    SortTexts({CellText(MonthAbbrOf(tbl.rows[i]["game_date"])) :
                 i \in {j \in 1..Len(tbl.rows) :
                          ~IsNA(MonthAbbrOf(tbl.rows[j]["game_date"]))}})

\* a monthly writer that overwrites whatever is there
WriteMonthlyFileAlways(d, path, tbl, frc, bad) ==
    IF path \in bad
    THEN [disk |-> d, wrote |-> FALSE, raised |-> TRUE]
    ELSE [disk |-> Put(d, path, ToCsv(tbl)), wrote |-> TRUE, raised |-> FALSE]

\* _write_monthly_files, one month: skip an existing file unless forced
WriteMonthlyFile(d, path, tbl, frc, bad) ==
    IF Exists(d, path) /\ ~frc
    THEN [disk |-> d, wrote |-> FALSE, raised |-> FALSE]
    ELSE IF path \in bad
    THEN [disk |-> d, wrote |-> FALSE, raised |-> TRUE]
    ELSE [disk |-> Put(d, path, ToCsv(tbl)), wrote |-> TRUE, raised |-> FALSE]

\* one turn of clean_season's loop: the cached league-wide file or
\* clean_one_csv (which writes it unconditionally), then the month buckets
CleanOneCsvAdv ==
    /\ pc = "season"
    /\ kind = "month"
    /\ files # << >>
    /\ LET name    == Head(files)
           path    == MainPath(cur, name)
           cached  == Exists(disk, path) /\ ~force
           src     == ReadCsv(raw[cur][name])
           fresh   == CleanTableAdv(src)
           none    == ~cached /\ (IsEmpty(src) \/ IsEmpty(fresh))
           raised  == ~cached /\ ~none /\ path \in unwritable
           cleaned == IF cached THEN ReadCsv(disk[path]) ELSE fresh
       IN  /\ files' = Tail(files)
           /\ IF cached \/ none \/ raised
              THEN UNCHANGED << disk, nwrites >>
              ELSE /\ disk' = Put(disk, path, ToCsv(fresh))
                   /\ nwrites' = nwrites + 1
           /\ pc' = IF raised THEN "aborted" ELSE pc
           /\ IF none \/ raised \/ "game_date" \notin cleaned.cols
              THEN UNCHANGED buckets
              ELSE buckets' = AddToBuckets(buckets, cleaned, MonthKeys(cleaned))
    /\ UNCHANGED << hvars, kind, raw, unwritable, force, targets, cur, base, df,
                    groups, runs, argv, reran, lastCall >>

\* the loop is over: consolidate, enter _write_monthly_files
EndSeasonAdv ==
    /\ pc = "season"
    /\ kind = "month"
    /\ files = << >>
    /\ groups' = [i \in 1..Len(buckets) |-> buckets[i].mon]
    /\ pc' = IF buckets = << >> THEN "main" ELSE "months"
    /\ UNCHANGED << hvars, kind, raw, disk, unwritable, force, targets, cur, files,
                    base, df, buckets, runs, argv, reran, nwrites, lastCall >>

\* one turn of the loop of _write_monthly_files
WriteMonth ==
    /\ pc = "months"
    /\ groups # << >>
    /\ LET mon  == Head(groups)
           b    == CHOOSE x \in Range(buckets) : x.mon = mon
           tbl  == [cols |-> b.cols, rows |-> b.rows]
           path == MonthPath(cur, mon)
           w    == WriteMonthlyFile(disk, path, tbl, force, unwritable)
       IN  /\ disk' = w.disk
           /\ lastCall' = CallOf(path, tbl, w)
           /\ nwrites' = nwrites + (IF w.wrote THEN 1 ELSE 0)
           /\ groups' = IF w.raised THEN << >> ELSE Tail(groups)
           /\ pc' = IF w.raised THEN "aborted"
                    ELSE IF Tail(groups) # << >> THEN "months" ELSE "main"
    /\ UNCHANGED << hvars, kind, raw, unwritable, force, targets, cur, files, base,
                    df, buckets, runs, argv, reran >>

\* ---- the process is killed ------------------------------------------------
\* between two statements: nothing more is written
Terminate ==
    /\ pc \in {"main", "season", "split"}
    /\ pc' = "killed"
    /\ UNCHANGED << hvars, kind, raw, disk, unwritable, force, targets, cur,
                    files, base, df, groups, buckets, runs, argv, reran,
                    nwrites, lastCall >>

\* the file a to_csv cut short leaves at its path: to_csv opens the target
\* itself for writing and emits the rows in order, so the header and some
\* of the rows, not all, are there
CutShort(tbl) ==
    {[cols |-> tbl.cols, rows |-> SubSeq(ToCsv(tbl).rows, 1, k)] :
        k \in 0..(Len(tbl.rows) - 1)}

\* inside the to_csv of the league-wide file (_write_csv from clean_one_csv)
KillInMainWrite ==
    /\ pc = "season"
    /\ kind = "team"
    /\ files # << >>
    /\ LET name == Head(files)
           src  == ReadCsv(raw[cur][name])
           tbl  == CleanTable(src)
           path == MainPath(cur, name)
       IN  /\ ~IsEmpty(src)
           /\ ~IsEmpty(tbl)
           /\ ~Exists(disk, path) \/ force
           /\ \E part \in CutShort(tbl) : disk' = Put(disk, path, part)
    /\ pc' = "killed"
    /\ UNCHANGED << hvars, kind, raw, unwritable, force, targets, cur, files,
                    base, df, groups, buckets, runs, argv, reran, nwrites,
                    lastCall >>

\* inside the to_csv of a per-team file
KillInTeamWrite ==
    /\ pc = "split"
    /\ groups # << >>
    /\ LET team == Head(groups)
           grp  == GroupOf(df, "team", team)
           path == TeamPath(cur, team, base)
       IN  /\ ~Exists(disk, path) \/ force
           /\ \E part \in CutShort(grp) : disk' = Put(disk, path, part)
    /\ pc' = "killed"
    /\ UNCHANGED << hvars, kind, raw, unwritable, force, targets, cur, files,
                    base, df, groups, buckets, runs, argv, reran, nwrites,
                    lastCall >>

\* ---- a helper called on its own -------------------------------------------
Returns(name, tbl) ==
    /\ op' = name
    /\ out' = tbl
    /\ err' = FALSE
    /\ UNCHANGED << dvars, tab, excl >>

Raises(name) ==
    /\ op' = name
    /\ out' = NoTable
    /\ err' = TRUE
    /\ UNCHANGED << dvars, tab, excl >>

\* coerce_all_numeric(df, exclude_cols)
Coerce ==
    /\ op = "in"
    /\ Returns("coerce", CoerceAllNumeric(tab, excl))

\* _add_season_bounds(df) of the per-season cleaners
SeasonBounds ==
    /\ op = "in"
    /\ Returns("bounds", AddSeasonBounds(tab))

\* the season split of clean_award_csv
AwardSeason ==
    /\ op = "in"
    /\ LET r == AwardSeasonSplit(tab)
       IN  IF r.raised THEN Raises("award") ELSE Returns("award", r.df)

\* the season split of clean_mvp_csv
MvpSeason ==
    /\ op = "in"
    /\ LET r == MvpSeasonSplit(tab)
       IN  IF r.raised THEN Raises("mvp") ELSE Returns("mvp", r.df)

\* df.drop_duplicates(inplace=True)
DropDups ==
    /\ op = "in"
    /\ Returns("dedup", DropDuplicates(tab))

\* ... and once more on its result
DropDupsAgain ==
    /\ op = "dedup"
    /\ op' = "dedup2"
    /\ out' = DropDuplicates(out)
    /\ UNCHANGED << dvars, tab, excl, err >>

\* normalise_cols(cols)
Normalise ==
    /\ op = "in"
    /\ Returns("norm", NormaliseNames(tab))

\* ... and once more on its result
NormaliseAgain ==
    /\ op = "norm"
    /\ op' = "norm2"
    /\ out' = NormaliseNames(out)
    /\ UNCHANGED << dvars, tab, excl, err >>

\* text.py on players_basic.csv
CleanPlayersText ==
    /\ op = "in"
    /\ LET r == MainText(tab)
       IN  IF r.raised THEN Raises("text") ELSE Returns("text", r.df)

\* all_players_cleaned.py on players_basic.csv
CleanPlayersAll ==
    /\ op = "in"
    /\ LET r == MainAll(tab)
       IN  IF r.raised THEN Raises("all") ELSE Returns("all", r.df)

(***************************************************************************)
(* Part 4.  Specifications.                                                *)
(* Spec: a raw tree, an empty processed tree, a filesystem that accepts    *)
(* every write, and up to MaxRuns runs of one cleaner, each to completion. *)
(***************************************************************************)
InitRun ==
    /\ disk = << >>
    /\ pc = "idle"
    /\ force = FALSE
    /\ targets = << >>
    /\ cur = ""
    /\ files = << >>
    /\ base = ""
    /\ df = NoTable
    /\ groups = << >>
    /\ buckets = << >>
    /\ runs = 0
    /\ argv = NoArgs
    /\ reran = FALSE
    /\ nwrites = 0
    /\ lastCall = NoCall

InitRaw ==
    /\ kind \in {"team", "month"}
    /\ \E h \in Headers(kind), D \in SUBSET Seasons :
         \E g \in Alloc(D \X Files, MaxRows, h) : raw = RawTree(D, h, g)

\* no helper is called on its own
InitNoCall ==
    /\ tab = NoTable
    /\ excl = {}
    /\ op = "idle"
    /\ out = NoTable
    /\ err = FALSE

Init ==
    /\ InitRaw
    /\ unwritable = {}
    /\ InitRun
    /\ InitNoCall

Step ==
    \/ \E args \in Commands, frc \in BOOLEAN : StartRun(args, frc)
    \/ Rerun
    \/ NextSeason
    \/ EndRun
    \/ CleanOneCsv
    \/ WriteTeam
    \/ EndSeason
    \/ CleanOneCsvAdv
    \/ EndSeasonAdv
    \/ WriteMonth

Next == Step

Spec == Init /\ [][Next]_vars

\* the seasons a run of the command line cleans
Cleaned(args) == Range(ResolveTargets(args, raw)) \cap DOMAIN raw

\* ---- the helpers on their own: no run, one call on a table ---------------
InitNoRun ==
    /\ kind = "team"
    /\ raw = << >>
    /\ unwritable = {}
    /\ InitRun

InitCall(tables, excls) ==
    /\ tab \in tables
    /\ excl \in excls
    /\ op = "in"
    /\ out = NoTable
    /\ err = FALSE

\* the tables with columns cols, cells from cells and at most n rows
Tables(cols, cells, n) ==
    {[cols |-> cols, rows |-> r] : r \in SeqsUpTo([cols -> cells], n)}

\* SpecCoerce: coerce_all_numeric on any small table
MaxCoerceRows == 2

CoerceCells ==
    {NA, Num(3), Str(<< >>), Str(<< "7" >>), Str(<< "-", "2" >>), Str(<< "x" >>)}

ExcludeLists == {{}, {"a"}, {"a", "b"}, {"b", "zz"}}

InitCoerce ==
    /\ InitNoRun
    /\ InitCall(Tables({"a", "b"}, CoerceCells, MaxCoerceRows), ExcludeLists)

SpecCoerce == InitCoerce /\ [][Coerce]_vars

\* SpecSeason: the three season-bounds derivations on the season column of
\* a CSV file
MaxSeasonRows == 3

SeasonLabels ==
    {<< "1", "9", "9", "9", "-", "0", "0" >>,
     << "2", "0", "2", "3", "-", "2", "4" >>,
     << "S", "e", "a", "s", "o", "n" >>,
     << >>}

InitSeason ==
    /\ InitNoRun
    /\ InitCall({ReadCsv(f) : f \in Tables({"season"}, SeasonLabels, MaxSeasonRows)},
                {{}})

NextSeasonCall == SeasonBounds \/ AwardSeason \/ MvpSeason

SpecSeason == InitSeason /\ [][NextSeasonCall]_vars

\* SpecDedup: drop_duplicates on tables with repeated rows
MaxDupRows == 4

DupCells == {NA, Num(1)}

InitDedup ==
    /\ InitNoRun
    /\ InitCall(Tables({"a", "b"}, DupCells, MaxDupRows), {{}})

NextDedup == DropDups \/ DropDupsAgain

SpecDedup == InitDedup /\ [][NextDedup]_vars

\* SpecPlayers: the two player cleaners on a players_basic.csv; only the
\* columns the prune reads are kept
MaxPlayers == 2

PlayerCols == {"is_retired", "height", "weight", "country", "experience"}

FullPlayer ==
    [c \in PlayerCols |->
        CASE c = "is_retired" -> TrueText
          [] c = "height"     -> << "6", "-", "7" >>
          [] c = "weight"     -> << "2", "2", "0" >>
          [] c = "country"    -> << "U", "S", "A" >>
          [] c = "experience" -> << "5" >>]

BlankSets ==
    {{}, {"experience"}, {"height", "weight", "country"},
     {"height", "weight", "country", "experience"}}

PlayerRows ==
    {[c \in PlayerCols |-> IF c = "is_retired" THEN flag
                           ELSE IF c \in blank THEN << >> ELSE FullPlayer[c]] :
        flag \in {TrueText, FalseText, << >>}, blank \in BlankSets}

InitPlayers ==
    /\ InitNoRun
    /\ InitCall({[cols |-> PlayerCols, rows |-> r] :
                    r \in SeqsUpTo(PlayerRows, MaxPlayers)}, {{}})

NextPlayers == CleanPlayersText \/ CleanPlayersAll

SpecPlayers == InitPlayers /\ [][NextPlayers]_vars

\* ---- what a run from an empty tree is to leave ---------------------------
\* the outputs of one raw file of the per-team cleaner: path and contents
TeamOutputs(s, f) ==
    LET tbl == CleanTable(ReadCsv(raw[s][f]))
    IN  IF IsEmpty(tbl) THEN {}
        ELSE {[path |-> MainPath(s, f), file |-> ToCsv(tbl)]}
               \cup (IF "team" \notin tbl.cols THEN {}
                     ELSE {[path |-> TeamPath(s, k, f),
                            file |-> ToCsv(GroupOf(tbl, "team", k))] :
                              k \in Range(GroupKeys(tbl, "team"))})

\* month_buckets after the files of the season, in glob order
RECURSIVE SeasonBuckets(_, _)
SeasonBuckets(s, names) ==
    IF names = << >> THEN << >>
    ELSE LET front == SeasonBuckets(s, SubSeq(names, 1, Len(names) - 1))
             tbl   == CleanTableAdv(ReadCsv(raw[s][names[Len(names)]]))
         IN  IF IsEmpty(tbl) \/ "game_date" \notin tbl.cols THEN front
             ELSE AddToBuckets(front, tbl, MonthKeys(tbl))

\* the outputs of one season of the monthly cleaner
MonthOutputs(s) ==
    {[path |-> MainPath(s, f), file |-> ToCsv(CleanTableAdv(ReadCsv(raw[s][f])))] :
        f \in {g \in Files : ~IsEmpty(CleanTableAdv(ReadCsv(raw[s][g])))}}
      \cup {[path |-> MonthPath(s, b.mon),
             file |-> ToCsv([cols |-> b.cols, rows |-> b.rows])] :
               b \in Range(SeasonBuckets(s, FileOrder))}

\* the outputs of an uninterrupted run of the command into an empty tree
Outputs(args) ==
    IF kind = "team"
    THEN UNION {TeamOutputs(s, f) : s \in Cleaned(args), f \in Files}
    ELSE UNION {MonthOutputs(s) : s \in Cleaned(args)}

\* ---- SpecFail: as Spec, on a filesystem that refuses one output path -----
InitFail ==
    /\ InitRaw
    /\ \E o \in Outputs([NoArgs EXCEPT !.all = TRUE]) : unwritable = {o.path}
    /\ InitRun
    /\ InitNoCall

SpecFail == InitFail /\ [][Next]_vars

\* ---- SpecKill: the per-team cleaner, killed at any point and run again ---
InitKill ==
    /\ InitRaw
    /\ kind = "team"
    /\ unwritable = {}
    /\ InitRun
    /\ InitNoCall

NextKill ==
    \/ \E args \in Commands, frc \in BOOLEAN : StartRun(args, frc)
    \/ Rerun
    \/ NextSeason
    \/ EndRun
    \/ CleanOneCsv
    \/ WriteTeam
    \/ EndSeason
    \/ Terminate
    \/ KillInMainWrite
    \/ KillInTeamWrite

SpecKill == InitKill /\ [][NextKill]_vars

(***************************************************************************)
(* Part 5.  The checked properties.                                        *)
(***************************************************************************)
\* every file of d but the one at path is in e, unchanged
SameElsewhere(d, e, path) ==
    \A q \in DOMAIN d \ {path} : q \in DOMAIN e /\ e[q] = d[q]

\* this step is a call of the partition writer (_write_csv or one month of
\* _write_monthly_files)
WriterCalled == lastCall' # lastCall /\ lastCall' # NoCall

\* C1: a call of the partition writer whose target exists while force is
\* false changes nothing on disk and writes nothing; any other call leaves
\* the target holding exactly the table passed in, and no other file touched.
C1_CachePolicy ==
    [][WriterCalled =>
         LET c == lastCall'
         IN  IF Exists(disk, c.path) /\ ~force
             THEN disk' = disk /\ nwrites' = nwrites
             ELSE /\ Exists(disk', c.path)
                  /\ disk'[c.path] = c.file
                  /\ nwrites' = nwrites + 1
                  /\ DOMAIN disk' = DOMAIN disk \cup {c.path}
                  /\ SameElsewhere(disk, disk', c.path)]_vars

\* a per-team file was skipped because it was there, and is as it was
C1_Witness ==
    /\ lastCall.path.d = "teams"
    /\ lastCall.existed
    /\ ~lastCall.force
    /\ ~lastCall.wrote
    /\ Exists(disk, lastCall.path)
    /\ disk[lastCall.path] = lastCall.before

\* C2: the same command run again with force = false after a run that
\* completed performs no write and leaves every file as it was.
C2_SecondRunWritesNothing ==
    [][(reran' /\ ~force') => (disk' = disk /\ nwrites' = 0)]_vars

\* the second run of the monthly cleaner is over; it met league-wide and
\* monthly files of the first run
C2_Witness ==
    /\ reran
    /\ ~force
    /\ pc = "done"
    /\ kind = "month"
    /\ nwrites = 0
    /\ \E p, q \in DOMAIN disk : p.d = "main" /\ q.d = "month"

TeamFiles(s, f) == {p \in DOMAIN disk : p.d = "teams" /\ p.season = s /\ p.file = f}

\* C3: after one run of a per-team cleaner into an empty output directory,
\* the league-wide file of every cleaned raw file holds all its cleaned rows,
\* each of these rows is in exactly one per-team file (the one of its team),
\* and a per-team file holds nothing else.
C3_TeamSplit ==
    (pc = "done" /\ runs = 1 /\ kind = "team") =>
        \A s \in Cleaned(argv), f \in Files :
            LET tbl  == CleanTable(ReadCsv(raw[s][f]))
                main == MainPath(s, f)
            IN  IF IsEmpty(tbl)
                THEN ~Exists(disk, main) /\ TeamFiles(s, f) = {}
                ELSE /\ Exists(disk, main)
                     /\ disk[main] = ToCsv(tbl)
                     /\ IF "team" \notin tbl.cols
                        THEN TeamFiles(s, f) = {}
                        ELSE /\ \A i \in 1..Len(tbl.rows) :
                                  LET row == disk[main].rows[i]
                                  IN  {p \in TeamFiles(s, f) : row \in Range(disk[p].rows)}
                                        = {TeamPath(s, row["team"], f)}
                             /\ \A p \in TeamFiles(s, f) :
                                  /\ disk[p].cols = tbl.cols
                                  /\ Range(disk[p].rows) \subseteq Range(disk[main].rows)
                                  /\ \A i, j \in 1..Len(disk[p].rows) :
                                        disk[p].rows[i] = disk[p].rows[j] => i = j

\* one raw file went to two per-team files
C3_Witness ==
    /\ pc = "done"
    /\ runs = 1
    /\ kind = "team"
    /\ \E s \in Cleaned(argv), f \in Files :
         /\ Cardinality(TeamFiles(s, f)) = 2
         /\ Len(disk[MainPath(s, f)].rows) = 2

\* every output the command is to produce, but the refused ones, is there
WrittenButRefused ==
    \A o \in Outputs(argv) :
        o.path \notin unwritable => Exists(disk, o.path) /\ disk[o.path] = o.file

\* C4: when the filesystem refuses one output path, the first run into an
\* empty tree still ends normally (it does not abort) and has written every
\* other output: the remaining partitions, files and seasons.
C4_FailureConfined ==
    (runs = 1 /\ pc \in {"done", "aborted"}) =>
        (pc = "done" /\ WrittenButRefused)

\* C5: a run killed at any point, then the same command run to completion
\* with force = false: every output holds what an uninterrupted run writes.
C5_RerunCompletes ==
    (runs = 2 /\ reran /\ ~force /\ pc = "done") =>
        \A o \in Outputs(argv) : Exists(disk, o.path) /\ disk[o.path] = o.file

\* C6: coerce_all_numeric returns (it does not raise) a table with the same
\* columns and as many rows; a cell of an excluded column is as it was; any
\* other cell is the number its text parses to, or missing when it does not
\* parse (a number stays, a missing cell stays missing).
C6_CoerceAllNumeric ==
    op = "coerce" =>
        /\ ~err
        /\ out.cols = tab.cols
        /\ Len(out.rows) = Len(tab.rows)
        /\ \A i \in 1..Len(tab.rows), c \in tab.cols :
              LET x == tab.rows[i][c]
                  y == out.rows[i][c]
              IN  IF c \in excl THEN y = x
                  ELSE CASE x.k = "num" -> y = x
                         [] x.k = "str" /\ ParsesAsNumber(x.s) ->
                                y.k = "num" /\ NumberText(y.n) = x.s
                         [] OTHER -> y = NA

\* a column of numeric and non-numeric texts was coerced next to an excluded one
C6_Witness ==
    /\ op = "coerce"
    /\ excl = {"a"}
    /\ Len(tab.rows) = 2
    /\ tab.rows[1]["a"] = Str(<< "x" >>) /\ out.rows[1]["a"] = Str(<< "x" >>)
    /\ tab.rows[1]["b"] = Str(<< "-", "2" >>) /\ out.rows[1]["b"] = Num(0 - 2)
    /\ tab.rows[2]["b"] = Str(<< "x" >>) /\ out.rows[2]["b"] = NA

\* a text of the form YYYY-YY
IsSeasonLabel(c) ==
    /\ c.k = "str"
    /\ Len(c.s) = 7
    /\ c.s[5] = "-"
    /\ \A i \in {1, 2, 3, 4, 6, 7} : c.s[i] \in Digits

\* the year a text of four digits spells
YearOf(t) ==
    1000 * DigitVal(t[1]) + 100 * DigitVal(t[2]) + 10 * DigitVal(t[3]) + DigitVal(t[4])

Derived == op \in {"bounds", "award", "mvp"}

\* C7: wherever a season derivation returns, a row labelled YYYY-YY has
\* season_start = YYYY and season_end = YYYY + 1.
C7_SeasonBounds ==
    (Derived /\ ~err) =>
        \A i \in 1..Len(tab.rows) :
            IsSeasonLabel(tab.rows[i]["season"]) =>
                /\ out.rows[i]["season_start"] = Num(YearOf(tab.rows[i]["season"].s))
                /\ out.rows[i]["season_end"] = Num(YearOf(tab.rows[i]["season"].s) + 1)

\* the shared pipeline derived 1999 and 2000 from 1999-00
C7_Witness ==
    /\ op = "bounds"
    /\ \E i \in 1..Len(tab.rows) :
         /\ tab.rows[i]["season"] = Str(<< "1", "9", "9", "9", "-", "0", "0" >>)
         /\ out.rows[i]["season_start"] = Num(1999)
         /\ out.rows[i]["season_end"] = Num(2000)

\* the label has no 4-digit prefix
LacksPrefix(c) ==
    ~(c.k = "str" /\ Len(c.s) >= 4 /\ \A i \in 1..4 : c.s[i] \in Digits)

\* C8: every season derivation returns (it does not raise), and a row whose
\* label has no 4-digit prefix has missing season_start and season_end.
C8_BadLabelIsSoft ==
    Derived =>
        /\ ~err
        /\ \A i \in 1..Len(tab.rows) :
              LacksPrefix(tab.rows[i]["season"]) =>
                  /\ out.rows[i]["season_start"] = NA
                  /\ out.rows[i]["season_end"] = NA

\* the rows of a table that no earlier row equals, in the table's order
FirstOccurrences(rows) ==
    LET firsts == {i \in 1..Len(rows) : \A j \in 1..(i - 1) : rows[j] # rows[i]}
        nth(k) == CHOOSE i \in firsts : Cardinality({j \in firsts : j <= i}) = k
    IN  [k \in 1..Cardinality(firsts) |-> rows[nth(k)]]

\* C9: drop_duplicates leaves exactly the first occurrence of every distinct
\* row, in the original order, and a second application leaves that result.
C9_DropDuplicates ==
    op \in {"dedup", "dedup2"} =>
        /\ out.cols = tab.cols
        /\ out.rows = FirstOccurrences(tab.rows)

\* x y x y went to x y, and stayed x y
C9_Witness ==
    /\ op = "dedup2"
    /\ Len(tab.rows) = 4
    /\ tab.rows[1] # tab.rows[2]
    /\ tab.rows[3] = tab.rows[1]
    /\ tab.rows[4] = tab.rows[2]
    /\ out.rows = << tab.rows[1], tab.rows[2] >>

\* C10: wherever a player cleaner gets to its prune, every row of the file
\* whose is_retired field is False survives it, whatever it is missing.
C10_PruneKeepsActive ==
    (op \in {"text", "all"} /\ ~err) =>
        \A i \in 1..Len(tab.rows) :
            tab.rows[i]["is_retired"] = FalseText =>
                \E k \in 1..Len(out.index) : out.index[k] = i

\* of two players missing all four fields, the retired one went and the
\* active one stayed
C10_Witness ==
    /\ op = "all"
    /\ ~err
    /\ Len(tab.rows) = 2
    /\ \A i \in 1..2 : \A c \in PlayerCols \ {"is_retired"} : tab.rows[i][c] = << >>
    /\ tab.rows[1]["is_retired"] = TrueText
    /\ tab.rows[2]["is_retired"] = FalseText
    /\ out.index = << 2 >>

\* the table a player cleaner holds at its prune step
AtPrune(file, name) ==
    IF name = "text" THEN PlayerFields(ReadCsvStr(file), FALSE)
    ELSE PlayerFields(ReadCsv(file), TRUE)

\* C11: wherever a player cleaner gets to its prune, a row whose is_retired
\* field is True in the file and that misses at least the threshold of its
\* core columns is not in the output.
C11_RetireePruned ==
    (op \in {"text", "all"} /\ ~err) =>
        \A i \in 1..Len(tab.rows) :
            (/\ tab.rows[i]["is_retired"] = TrueText
             /\ MissingCore(AtPrune(tab, op), AtPrune(tab, op).rows[i])
                  >= RETIREE_MISSING_CORE_THRESHOLD)
                => \A k \in 1..Len(out.index) : out.index[k] # i

\* ---- C12: the team labels ------------------------------------------------
\* SpecTeam: the two player cleaners on a roster that holds the team column,
\* with or without the is_retired column
MaxRoster == 2

TeamTexts == {<< "L" >>, << " ", "L" >>, << >>, << " " >>}

RosterRows(cols) ==
    {[c \in cols |-> IF c = "team" THEN t ELSE flag] :
        t \in TeamTexts, flag \in {TrueText, FalseText, << >>}}

InitTeam ==
    /\ InitNoRun
    /\ InitCall(UNION {{[cols |-> cols, rows |-> r] :
                            r \in SeqsUpTo(RosterRows(cols), MaxRoster)} :
                        cols \in {{"is_retired", "team"}, {"team"}}}, {{}})

SpecTeam == InitTeam /\ [][NextPlayers]_vars

\* the is_retired field of row i of the roster file; False when the file
\* has no such column
RawFlag(i) ==
    IF "is_retired" \in tab.cols THEN tab.rows[i]["is_retired"] ELSE FalseText

\* C12: after a player cleaner ran on a roster, no output row has an empty
\* team: a row whose is_retired field is True has team RET, a row whose field
\* is False and whose team is blank has team FA, and a row whose field is
\* False and whose team is not blank keeps its trimmed team code.
C12_TeamLabels ==
    (op \in {"text", "all"} /\ ~err) =>
        \A k \in 1..Len(out.rows) :
            LET i    == out.index[k]
                code == Strip(tab.rows[i]["team"])
                team == out.rows[k]["team"]
            IN  /\ team # NA /\ team # Str(<< >>)
                /\ RawFlag(i) = TrueText => team = Str(RETIRED_LABEL)
                /\ RawFlag(i) = FalseText /\ code = << >> => team = Str(FREE_AGENT_LABEL)
                /\ RawFlag(i) = FalseText /\ code # << >> => team = Str(code)

\* ---- C13: the draft split ------------------------------------------------
\* SpecDraft: the two player cleaners on a roster that holds the draft column
MaxDrafts == 2

DraftTexts ==
    {<< >>,
     << "U", "n", "d", "r", "a", "f", "t", "e", "d" >>,
     << "2", "0", "0", "3", " ", "u", "N", "D", "R", "A", "F", "T", "E", "D" >>,
     << "2", "0", "0", "3" >>,
     << "2", "0", "0", "3", " ", "R", "n", "d", " ", "1", " ", "P", "i", "c", "k", " ", "3" >>,
     << "2", "0", "0", "3", " ", "R", "2", " ", "#", "3", "1" >>,
     << "R", "1", " ", "#", "3" >>,
     << "0", "0", "0", "0", " ", "R", "1" >>}

InitDraft ==
    /\ InitNoRun
    /\ InitCall({[cols |-> {"draft"}, rows |-> r] :
                    r \in SeqsUpTo([{"draft"} -> DraftTexts], MaxDrafts)}, {{}})

SpecDraft == InitDraft /\ [][NextPlayers]_vars

\* the draft cell of row i as the cleaner read it
DraftRead(i) ==
    IF op = "text" THEN ReadCsvStr(tab).rows[i]["draft"] ELSE ReadCsv(tab).rows[i]["draft"]

\* C13: a draft text that is empty, not a string or holds "undrafted" in any
\* letter case parses to three missing values, its row has draft_status UDF
\* and draft_year, draft_round, draft_pick 0 in the output; and every output
\* row with draft_status Drafted has a draft_year that is neither missing
\* nor 0.
C13_DraftSplit ==
    (op \in {"text", "all"} /\ ~err) =>
        \A k \in 1..Len(out.rows) :
            LET c   == DraftRead(out.index[k])
                row == out.rows[k]
            IN  /\ (c.k # "str" \/ c.s = << >> \/ Contains(Lower(c.s), Undrafted)) =>
                      /\ ParseDraft(c) = [year |-> NA, round |-> NA, pick |-> NA]
                      /\ row["draft_status"] = Str(UNDRAFTED_CODE)
                      /\ row["draft_year"] = Num(0)
                      /\ row["draft_round"] = Num(0)
                      /\ row["draft_pick"] = Num(0)
                /\ row["draft_status"] = Str(DRAFTED) =>
                      /\ row["draft_year"].k = "num"
                      /\ row["draft_year"].n # 0

\* C13 as amended: the same for the empty, non-string and "undrafted"
\* texts; a row with draft_status Drafted has a draft_year that is not
\* missing: it is the number of the first four digits in a row of its draft
\* text, which is 0 when these are 0000.
C13_DraftSplitAmended ==
    (op \in {"text", "all"} /\ ~err) =>
        \A k \in 1..Len(out.rows) :
            LET c   == DraftRead(out.index[k])
                row == out.rows[k]
            IN  /\ (c.k # "str" \/ c.s = << >> \/ Contains(Lower(c.s), Undrafted)) =>
                      /\ ParseDraft(c) = [year |-> NA, round |-> NA, pick |-> NA]
                      /\ row["draft_status"] = Str(UNDRAFTED_CODE)
                      /\ row["draft_year"] = Num(0)
                      /\ row["draft_round"] = Num(0)
                      /\ row["draft_pick"] = Num(0)
                /\ row["draft_status"] = Str(DRAFTED) =>
                      /\ c.k = "str"
                      /\ row["draft_year"].k = "num"
                      /\ \E i \in 1..(Len(c.s) - 3) :
                            /\ AllDigits(SubSeq(c.s, i, i + 3))
                            /\ \A j \in 1..(i - 1) : ~AllDigits(SubSeq(c.s, j, j + 3))
                            /\ row["draft_year"].n =
                                  1000 * DigitVal(c.s[i]) + 100 * DigitVal(c.s[i + 1])
                                  + 10 * DigitVal(c.s[i + 2]) + DigitVal(c.s[i + 3])

\* an undrafted player and one drafted in 2003, round 1, pick 3
C13_Witness ==
    /\ op = "text"
    /\ ~err
    /\ Len(tab.rows) = 2
    /\ tab.rows[1]["draft"] = << "U", "n", "d", "r", "a", "f", "t", "e", "d" >>
    /\ Len(tab.rows[2]["draft"]) = 17
    /\ out.rows[1]["draft_status"] = Str(UNDRAFTED_CODE)
    /\ out.rows[1]["draft_year"] = Num(0)
    /\ out.rows[2]["draft_status"] = Str(DRAFTED)
    /\ out.rows[2]["draft_year"] = Num(2003)
    /\ out.rows[2]["draft_round"] = Num(1)
    /\ out.rows[2]["draft_pick"] = Num(3)

\* ---- C14, C15: the player ids ---------------------------------------------
\* SpecIds: the two player cleaners on a roster that holds the player column
MaxNames == 3

NameTexts ==
    {<< "a", "l", " ", "l", "i" >>,
     << "A", "l", " ", "L", "i" >>,
     << "a", "l", " ", "l", "i", " ", "j", "r" >>,
     << "l", "i" >>,
     << " " >>,
     << "7" >>,
     << >>}

InitIds ==
    /\ InitNoRun
    /\ InitCall({[cols |-> {"player"}, rows |-> r] :
                    r \in SeqsUpTo([{"player"} -> NameTexts], MaxNames)}, {{}})

SpecIds == InitIds /\ [][NextPlayers]_vars

\* the series the id builder returned in the run that ended in this state
IdsAt(file, name) ==
    IF name = "text" THEN BuildPlayerIds(PruneText(file).df, FALSE).ids
    ELSE BuildPlayerIds(PruneAll(file).df, TRUE).ids

\* C14: within one run of a player cleaner the derived player_id values are
\* pairwise distinct, whatever the names are.
C14_DistinctIds ==
    (op \in {"text", "all"} /\ ~err) =>
        \A k, l \in 1..Len(IdsAt(tab, op)) :
            k # l => IdsAt(tab, op)[k] # IdsAt(tab, op)[l]

\* the prefix the key is to have: the first 5 letters of the last token and
\* the first 2 of the first, tokens taken from the lower-cased name without
\* its non-letters
KeyPrefix(t) ==
    LET toks == NameTokens(t, TRUE)
    IN  IF toks = << >> THEN << >>
        ELSE Take(toks[Len(toks)], 5) \o Take(toks[1], 2)

\* C15: the key of every name is 9 characters long: its prefix, the 2-digit
\* rank of the row among the rows of the same prefix so far, and zeros to
\* the right.
C15_KeyFormat ==
    (op \in {"text", "all"} /\ ~err) =>
        \A k \in 1..Len(IdsAt(tab, op)) :
            LET i    == out.index[k]
                same == {j \in 1..i : KeyPrefix(tab.rows[j]["player"])
                                        = KeyPrefix(tab.rows[i]["player"])}
                id   == IdsAt(tab, op)[k]
            IN  /\ id.k = "str"
                /\ Len(id.s) = 9
                /\ id.s = LJust(KeyPrefix(tab.rows[i]["player"]) \o ZFill(Cardinality(same)))

\* ---- C16, C17: normalise_cols --------------------------------------------
\* SpecNorm: normalise_cols on one header of up to MaxHeaderLen characters,
\* alone or next to the header A, and once more on its result
MaxHeaderLen == 3

HeaderChars == {"A", "a", " ", "_", "%", "/", "-"}

HeaderLists ==
    UNION {{<< h >>, << h, << "A" >> >>, << << "A" >>, h >>} :
              h \in SeqsUpTo(HeaderChars, MaxHeaderLen)}

InitNorm ==
    /\ InitNoRun
    /\ InitCall(HeaderLists, {{}})

SpecNorm == InitNorm /\ [][Normalise \/ NormaliseAgain]_vars

\* the letters and digits of a text
AlNum(t) == SelectSeq(t, LAMBDA ch : IsWordChar(ch) /\ ch # "_")

\* the words of a header: its letters and digits in lower case, "%" read as
\* pct
WordChars(t) == AlNum(Replace(Lower(t), "%", << "p", "c", "t" >>))

\* C16: normalise_cols is idempotent, and its result has the length and the
\* order of its input (name i holds the letters and digits of header i).
C16_Idempotent ==
    [][/\ op' \in {"norm", "norm2"} =>
            /\ Len(out') = Len(tab')
            /\ \A i \in 1..Len(tab') : AlNum(out'[i]) = WordChars(tab'[i])
       /\ op' = "norm2" => out' = out]_vars

\* " A%" and "A" went to "apct" and "a", and stayed
C16_Witness ==
    /\ op = "norm2"
    /\ tab = << << " ", "A", "%" >>, << "A" >> >>
    /\ out = << << "a", "p", "c", "t" >>, << "a" >> >>

\* the canonical form of a header: its words (runs of letters and digits,
\* lower case, "%" read as pct) joined by single underscores
Canonical(t) ==
    LET u       == Replace(Lower(t), "%", << "p", "c", "t" >>)
        word(i) == IsWordChar(u[i]) /\ u[i] # "_"
        keep    == {i \in 1..Len(u) :
                       \/ word(i)
                       \/ /\ i > 1 /\ word(i - 1)
                          /\ \E j \in (i + 1)..Len(u) : word(j)}
        idx     == SelectSeq([i \in 1..Len(u) |-> i], LAMBDA i : i \in keep)
    IN  [k \in 1..Len(idx) |-> IF word(idx[k]) THEN u[idx[k]] ELSE "_"]

\* C17: every name normalise_cols returns is canonical: lower case, words
\* separated by single underscores, no leading or trailing underscore, a run
\* of non-word characters between words rendered as one underscore, "%" as
\* pct and "/" as an underscore.
C17_Canonical ==
    op \in {"norm", "norm2"} =>
        \A i \in 1..Len(out) :
            /\ out[i] = Canonical(tab[i])
            /\ \A k \in 1..Len(out[i]) : out[i][k] = LowerChar(out[i][k])
            /\ \A k \in 1..(Len(out[i]) - 1) : ~(out[i][k] = "_" /\ out[i][k + 1] = "_")
            /\ out[i] # << >> => out[i][1] # "_" /\ out[i][Len(out[i])] # "_"

\* C17 as amended: every name normalise_cols returns holds lower-case
\* letters, digits and underscores only: "%" is rendered as pct, every blank,
\* "/" and underscore of the trimmed header as one underscore each, and
\* every other non-word character is deleted.
C17_WordCharsOnly ==
    op \in {"norm", "norm2"} =>
        \A i \in 1..Len(out) :
            LET bars == {k \in 1..Len(Strip(tab[i])) : Strip(tab[i])[k] \in {" ", "/", "_"}}
            IN  /\ \A k \in 1..Len(out[i]) :
                      IsWordChar(out[i][k]) /\ out[i][k] = LowerChar(out[i][k])
                /\ Cardinality({k \in 1..Len(out[i]) : out[i][k] = "_"}) = Cardinality(bars)
                /\ Len(out[i]) = Len(WordChars(tab[i])) + Cardinality(bars)

\* "A /" went to "a__" and "-A" to "a"
C17_Witness ==
    /\ op = "norm"
    /\ \/ tab = << << "A", " ", "/" >> >> /\ out = << << "a", "_", "_" >> >>
       \/ tab = << << "-", "A" >> >> /\ out = << << "a" >> >>

\* ---- C18: the seasons of a run ---------------------------------------------
\* SpecCli: one run of a per-season driver under every command line, on a
\* raw root whose folders (season folders or not) hold one-row files
CliRow(h) ==
    [c \in h |-> CASE c = "TEAM_ABBREVIATION" -> << "l" >>
                   [] c = "GAME_DATE"         -> << "0", "1", "/" >>
                   [] OTHER                   -> << "1" >>]

InitCli ==
    /\ kind \in {"team", "month"}
    /\ \E h \in Headers(kind), D \in SUBSET Dirs :
         raw = [s \in D |-> [f \in Files |-> [cols |-> h, rows |-> << CliRow(h) >>]]]
    /\ unwritable = {}
    /\ InitRun
    /\ InitNoCall

\* the one run of the process
FirstRun(args, frc) ==
    /\ pc = "idle"
    /\ StartRun(args, frc)

NextCli ==
    \/ \E args \in ArgSet, frc \in BOOLEAN : FirstRun(args, frc)
    \/ NextSeason
    \/ EndRun
    \/ CleanOneCsv
    \/ WriteTeam
    \/ EndSeason
    \/ CleanOneCsvAdv
    \/ EndSeasonAdv
    \/ WriteMonth

SpecCli == InitCli /\ [][NextCli]_vars

\* the work list of a command line: the season-named folders of the raw
\* root for -a, the listed seasons for -S, the one season for -s, the
\* default season without a flag
WorkList(args, tree) ==
    IF args.all THEN SelectSeq(SeasonOrder, LAMBDA s : s \in DOMAIN tree)
    ELSE IF args.seasons # << >> THEN args.seasons
    ELSE IF args.season # "" THEN << args.season >>
    ELSE << "2024-25" >>

DirRank(s) == CHOOSE i \in 1..Len(DirOrder) : DirOrder[i] = s

NoRows(s, f) ==
    \/ ReadCsv(raw[s][f]).rows = << >>
    \/ kind = "team" /\ CleanTable(ReadCsv(raw[s][f])).rows = << >>
    \/ kind = "month" /\ CleanTableAdv(ReadCsv(raw[s][f])).rows = << >>

\* C19: in a per-season driver a raw file without rows never gets an output
\* file, league-wide or partition; a completed run has written the
\* league-wide file of every other file of every season of its work list that
\* has a raw folder, and nothing for a season that has none.
C19_EmptySkipped ==
    /\ \A s \in DOMAIN raw, f \in Files :
          NoRows(s, f) =>
              /\ ~Exists(disk, MainPath(s, f))
              /\ \A p \in DOMAIN disk : ~(p.d = "teams" /\ p.season = s /\ p.file = f)
    /\ \A s \in DOMAIN raw :
          (\A f \in Files : NoRows(s, f)) => \A p \in DOMAIN disk : p.season # s
    /\ pc = "done" =>
          \A i \in 1..Len(ResolveTargets(argv, raw)) :
              LET s == ResolveTargets(argv, raw)[i]
              IN  IF s \in DOMAIN raw
                  THEN \A f \in Files : ~NoRows(s, f) => Exists(disk, MainPath(s, f))
                  ELSE \A p \in DOMAIN disk : p.season # s

\* -S 2024-25 2023-24 without a folder 2024-25: the run skipped it, skipped
\* the empty playoffs file of 2023-24 and wrote the regular season after it
C19_Witness ==
    /\ pc = "done"
    /\ argv.seasons = << "2024-25", "2023-24" >>
    /\ DOMAIN raw = {"2023-24"}
    /\ raw["2023-24"]["playoffs"].rows = << >>
    /\ ~Exists(disk, MainPath("2023-24", "playoffs"))
    /\ Exists(disk, MainPath("2023-24", "regular_season"))


\* ---- C20: clean_team_adv_boxscores.py, the month split -------------------
\* a month column that says JAN for every date
MonthAbbrJan(c) == Str(Upper(MonthAbbr(1)))

\* _month_abbr on one cell: strftime("%b").str.upper(); NaT stays missing
MonthAbbrUpper(c) ==
    LET t == ToDatetime(c)
    IN  IF t.k = "dt" THEN Str(Upper(MonthAbbr(t.n))) ELSE NA

\* month_file = proc_dir / MON / base_name
MonthFile(season, mon, name) == [d |-> "month", season |-> season, key |-> mon, file |-> name]

\* df["MON"] = _month_abbr(df["game_date"])
WithMon(tbl) ==
    SetColumn(tbl, "MON", [i \in 1..Len(tbl.rows) |-> MonthAbbrUpper(tbl.rows[i]["game_date"])])

\* the _write_csv calls of the month split, in the order of groupby("MON")
MonthJobs(tbl, season, name) ==
    LET keys == GroupKeys(tbl, "MON")
    IN  [i \in 1..Len(keys) |->
            [path |-> MonthFile(season, keys[i], name),
             tbl  |-> DropColumn(GroupOf(tbl, "MON", keys[i]), "MON")]]

\* those of the team split: the groups keep the MON column
TeamJobs(tbl, season, name) ==
    LET keys == IF "team" \in tbl.cols THEN GroupKeys(tbl, "team") ELSE << >>
    IN  [i \in 1..Len(keys) |->
            [path |-> TeamPath(season, keys[i], name),
             tbl  |-> GroupOf(tbl, "team", keys[i])]]

\* a sequence of _write_csv calls: the disk they leave, the to_csv calls
\* made, and whether one of them raised (the calls after it are not made)
RECURSIVE WriteJobs(_, _, _, _)
WriteJobs(d, jobs, frc, bad) ==
    IF jobs = << >> THEN [disk |-> d, n |-> 0, raised |-> FALSE]
    ELSE LET w == WriteCsv(d, Head(jobs).path, Head(jobs).tbl, frc, bad)
             r == WriteJobs(w.disk, Tail(jobs), frc, bad)
         IN  IF w.raised THEN [disk |-> d, n |-> 0, raised |-> TRUE]
             ELSE [disk |-> r.disk, n |-> r.n + (IF w.wrote THEN 1 ELSE 0),
                   raised |-> r.raised]

\* one turn of clean_season's loop: clean_one_csv (it writes the league-wide
\* file), the month split, the team split; df["game_date"] of a table
\* without that column raises KeyError, which nothing catches
CleanOneCsvTeamAdv ==
    /\ pc = "season"
    /\ kind = "teamadv"
    /\ files # << >>
    /\ LET name   == Head(files)
           src    == ReadCsv(raw[cur][name])
           tbl    == CleanTableTeamAdv(src)
           none   == IsEmpty(src) \/ IsEmpty(tbl)
           main   == << [path |-> MainPath(cur, name), tbl |-> tbl] >>
           keyerr == "game_date" \notin tbl.cols
           jobs   == IF keyerr THEN main
                     ELSE main \o MonthJobs(WithMon(tbl), cur, name)
                               \o TeamJobs(WithMon(tbl), cur, name)
           w      == WriteJobs(disk, jobs, force, unwritable)
       IN  /\ files' = Tail(files)
           /\ IF none
              THEN UNCHANGED << disk, pc, base, df, nwrites >>
              ELSE /\ disk' = w.disk
                   /\ nwrites' = nwrites + w.n
                   /\ base' = name
                   /\ df' = IF keyerr THEN tbl ELSE WithMon(tbl)
                   /\ pc' = IF keyerr \/ w.raised THEN "aborted" ELSE pc
    /\ UNCHANGED << hvars, kind, raw, unwritable, force, targets, cur, groups,
                    buckets, runs, argv, reran, lastCall >>

InitTeamAdv ==
    /\ kind = "teamadv"
    /\ \E h \in Headers(kind), D \in SUBSET Seasons :
         \E g \in Alloc(D \X Files, MaxRows, h) : raw = RawTree(D, h, g)
    /\ unwritable = {}
    /\ InitRun
    /\ InitNoCall

NextTeamAdv ==
    \/ \E args \in Commands, frc \in BOOLEAN : StartRun(args, frc)
    \/ Rerun
    \/ NextSeason
    \/ EndRun
    \/ CleanOneCsvTeamAdv
    \/ EndSeason

SpecTeamAdv == InitTeamAdv /\ [][NextTeamAdv]_vars

\* the month files of raw file f of season s that hold the row
MonthFilesOf(s, f, row) ==
    {p \in DOMAIN disk : /\ p.d = "month" /\ p.season = s /\ p.file = f
                         /\ row \in Range(disk[p].rows)}

\* C20: after one run of the team advanced box-score cleaner into an empty
\* output directory, every row of each cleaned table is in exactly one month
\* file, the one named by the 3-letter month of its game_date.
C20_MonthPartition ==
    (pc = "done" /\ runs = 1 /\ kind = "teamadv") =>
        \A s \in Cleaned(argv), f \in Files :
            LET tbl == CleanTableTeamAdv(ReadCsv(raw[s][f]))
            IN  \A i \in 1..Len(tbl.rows) :
                    LET ms == MonthFilesOf(s, f, ToCsv(tbl).rows[i])
                    IN  /\ Cardinality(ms) = 1
                        /\ \A p \in ms : Str(p.key) = MonthAbbrUpper(tbl.rows[i]["game_date"])

\* C20, amended: after one run of the team advanced box-score cleaner into an
\* empty output directory, every row of each cleaned table whose game_date
\* parses is in exactly one month file, the one named by the 3-letter month
\* of its game_date; a row whose game_date does not parse is in no month
\* file; a month file holds nothing else.
C20_MonthPartitionParsed ==
    (pc = "done" /\ runs = 1 /\ kind = "teamadv") =>
        \A s \in Cleaned(argv), f \in Files :
            LET tbl == CleanTableTeamAdv(ReadCsv(raw[s][f]))
            IN  /\ \A i \in 1..Len(tbl.rows) :
                      LET ms == MonthFilesOf(s, f, ToCsv(tbl).rows[i])
                          c  == tbl.rows[i]["game_date"]
                      IN  IF IsNA(c) THEN ms = {}
                          ELSE /\ Cardinality(ms) = 1
                               /\ \A p \in ms : Str(p.key) = MonthAbbrUpper(c)
                /\ \A p \in DOMAIN disk :
                      (p.d = "month" /\ p.season = s /\ p.file = f) =>
                          Range(disk[p].rows) \subseteq Range(ToCsv(tbl).rows)

\* a finished run has cleaned a file with a dated and an undated game, and
\* has written a month file of it
C20_Witness ==
    /\ pc = "done"
    /\ runs = 1
    /\ kind = "teamadv"
    /\ \E s \in Cleaned(argv), f \in Files :
          LET tbl == CleanTableTeamAdv(ReadCsv(raw[s][f]))
          IN  /\ "game_date" \in tbl.cols
              /\ \E i, j \in 1..Len(tbl.rows) :
                    IsNA(tbl.rows[i]["game_date"]) /\ ~IsNA(tbl.rows[j]["game_date"])
              /\ \E p \in DOMAIN disk : p.d = "month" /\ p.season = s /\ p.file = f


(***************************************************************************)
(* Part 6.  The cleaners with a derived team column: player shooting,     *)
(* clutch and play type.                                                   *)
(***************************************************************************)
\* .str.replace(r"\s+", "_", regex=True): every run of blanks is one "_"
RECURSIVE CollapseBlanks(_)
CollapseBlanks(t) ==
    IF t = << >> THEN << >>
    ELSE IF t[1] # " " THEN << t[1] >> \o CollapseBlanks(Tail(t))
    ELSE IF Len(t) > 1 /\ t[2] = " " THEN CollapseBlanks(Tail(t))
    ELSE << "_" >> \o CollapseBlanks(Tail(t))

\* clean_player_shooting._ensure_team: the first of team, team_abbreviation
\* and team_name that is a column; an empty team for every row without one
EnsureTeamShooting(tbl) ==
    LET n       == Len(tbl.rows)
        up(c)   == [i \in 1..n |-> FillUpper(tbl.rows[i][c])]
        und(c)  == [i \in 1..n |-> Str(CollapseBlanks(FillUpper(tbl.rows[i][c]).s))]
    IN  IF "team" \in tbl.cols THEN SetColumn(tbl, "team", und("team"))
        ELSE IF "team_abbreviation" \in tbl.cols
        THEN SetColumn(tbl, "team", up("team_abbreviation"))
        ELSE IF "team_name" \in tbl.cols THEN SetColumn(tbl, "team", und("team_name"))
        ELSE SetColumn(tbl, "team", [i \in 1..n |-> Str(<< >>)])

\* clean_player_shooting._add_season_bounds: season_year is renamed only
\* when there is no season column
AddSeasonBoundsShooting(tbl) ==
    LET t1    == IF "season" \in tbl.cols THEN tbl ELSE Rename(tbl, "season_year", "season")
        start == [i \in 1..Len(t1.rows) |-> SeasonStartOf(t1.rows[i]["season"])]
        end   == [i \in 1..Len(t1.rows) |-> PlusOne(start[i])]
    IN  IF "season" \in t1.cols
        THEN SetColumn(SetColumn(t1, "season_start", start), "season_end", end)
        ELSE t1

\* id_cols of _clean_file
ID_COLS == {"player", "team", "season", "season_start", "season_end"}

\* the order of sort_values on one key: numbers by value, texts by code
\* point, missing cells last
CellLess(a, b) ==
    CASE a.k = "na"  -> FALSE
      [] b.k = "na"  -> TRUE
      [] a.k = "num" /\ b.k = "num" -> a.n < b.n
      [] a.k = "str" /\ b.k = "str" -> TextLess(a.s, b.s)
      [] OTHER -> FALSE

\* row a comes before row b under the sort keys
RECURSIVE RowLess(_, _, _)
RowLess(a, b, keys) ==
    IF keys = << >> THEN FALSE
    ELSE IF CellLess(a[Head(keys)], b[Head(keys)]) THEN TRUE
    ELSE IF CellLess(b[Head(keys)], a[Head(keys)]) THEN FALSE
    ELSE RowLess(a, b, Tail(keys))

\* df.sort_values(keys, ignore_index=True): rows that tie keep their order
RECURSIVE SortValues(_, _)
SortValues(rows, keys) ==
    IF rows = << >> THEN << >>
    ELSE LET m == CHOOSE i \in 1..Len(rows) :
                     /\ \A j \in 1..Len(rows) : ~RowLess(rows[j], rows[i], keys)
                     /\ \A j \in 1..(i - 1) : RowLess(rows[j], rows[i], keys)
                                                \/ RowLess(rows[i], rows[j], keys)
             rest == [j \in 1..(Len(rows) - 1) |-> IF j < m THEN rows[j] ELSE rows[j + 1]]
         IN  << rows[m] >> \o SortValues(rest, keys)

\* the sort keys of _clean_file: team, then player and season_start when
\* they are columns
SortKeys(cols) ==
    << "team" >> \o (IF "player" \in cols THEN << "player" >> ELSE << >>)
                 \o (IF "season_start" \in cols THEN << "season_start" >> ELSE << >>)

\* clean_player_shooting._clean_file up to the league-wide write: the
\* exclude list handed to coerce_all_numeric is numeric_targets, the columns
\* that are not identifiers
CleanFileShooting(file) ==
    LET t1 == AddSeasonBoundsShooting(EnsureTeamShooting(NormaliseCols(ReadCsv(file))))
        t2 == DropDuplicates(CoerceAllNumeric(t1, t1.cols \ ID_COLS))
    IN  [cols |-> t2.cols, rows |-> SortValues(t2.rows, SortKeys(t2.cols))]

\* bool(t) of a value of df["team"].unique()
Truthy(c) ==
    CASE c.k = "num" -> c.n # 0
      [] c.k = "str" -> c.s # << >>
      [] c.k = "bool" -> c.n = 1
      [] OTHER -> TRUE

\* _clean_file(src, ...): the league-wide table, then the team mirrors;
\* team_root / team raises TypeError for a team that is not a text
CleanShooting ==
    /\ op = "in"
    /\ ~IsEmpty(ReadCsv(tab))
    /\ op' = "shooting"
    /\ out' = CleanFileShooting(tab)
    /\ err' = \E i \in 1..Len(out'.rows) :
                 Truthy(out'.rows[i]["team"]) /\ out'.rows[i]["team"].k # "str"
    /\ UNCHANGED << dvars, tab, excl >>

\* _clean_file on an empty file: nothing is written
SkipShooting ==
    /\ op = "in"
    /\ IsEmpty(ReadCsv(tab))
    /\ Returns("skipped", NoTable)

\* SpecShooting: _clean_file on one raw file
MaxShots == 2

ShotTexts(c) ==
    CASE c = "player"  -> {<< "a", "l" >>, << "7" >>}
      [] c \in {"team", "team_name"} -> {<< "l" >>, << "b", " ", " ", "a" >>, << >>}
      [] c = "season"  -> {<< "2", "0", "2", "4", "-", "2", "5" >>, << "x" >>}
      [] OTHER         -> {<< "1" >>, << "x" >>}

ShotHeaders == {{"player", "team", "pts"}, {"player", "season", "pts"}, {"team_name", "pts"}}

ShotFiles ==
    UNION {{[cols |-> h, rows |-> r] :
              r \in SeqsUpTo({x \in [h -> UNION {ShotTexts(c) : c \in h}] :
                                 \A c \in h : x[c] \in ShotTexts(c)}, MaxShots)} :
           h \in ShotHeaders}

InitShooting ==
    /\ InitNoRun
    /\ InitCall(ShotFiles, {{}})

SpecShooting == InitShooting /\ [][CleanShooting \/ SkipShooting]_vars

\* the frame _clean_file hands to coerce_all_numeric
BeforeCoerce(file) ==
    AddSeasonBoundsShooting(EnsureTeamShooting(NormaliseCols(ReadCsv(file))))

\* the row as the claim has it: identifiers kept, the rest coerced
IdsKept(row, cols) ==
    [c \in cols |-> IF c \in ID_COLS THEN row[c] ELSE ToNumeric(row[c])]

\* C21: in the player-shooting cleaner the identifier columns player, team,
\* season, season_start and season_end reach the output unchanged, and
\* every other column is coerced to numeric, unparseable cells missing.
C21_IdsExcluded ==
    op = "shooting" =>
        LET src == BeforeCoerce(tab)
        IN  /\ out.cols = src.cols
            /\ Range(out.rows) = {IdsKept(src.rows[i], src.cols) : i \in 1..Len(src.rows)}


\* ---- C22: the stat columns of the written table ---------------------------
\* the textual identifier columns of the box-score tables
TextualCols == {"team", "season", "game_date"}

\* C22: in the per-season cleaners every column of a written league-wide
\* table other than the textual identifier columns is numeric: each field is
\* the number its raw field parses to, and empty when the raw field does not
\* parse.
C22_StatColumnsNumeric ==
    kind = "team" =>
        \A p \in DOMAIN disk :
            p.d = "main" =>
                \A i \in 1..Len(disk[p].rows), c \in disk[p].cols \ TextualCols :
                    NumericField(disk[p].rows[i][c])


\* ---- C23: _ensure_team ----------------------------------------------------
\* .astype(str) of one cell of a numeric column: a column with a missing
\* cell is a float column, its numbers print with ".0" and NaN as "nan"
AsTypeStr(c, float) ==
    CASE c.k = "na"  -> Str(<< "n", "a", "n" >>)
      [] c.k = "num" -> Str(NumberText(c.n) \o (IF float THEN << ".", "0" >> ELSE << >>))
      [] OTHER       -> Str(CellText(c))

\* _ensure_team of clean_player_clutch.py and clean_player_playtype.py: the
\* first of team, team_abbreviation, team_name and team_id that is a column
\* fills the team of every row; without any of them the frame is left alone
EnsureTeam(tbl) ==
    LET n      == Len(tbl.rows)
        up(c)  == [i \in 1..n |-> FillUpper(tbl.rows[i][c])]
        name   == [i \in 1..n |->
                     Str(Replace(FillUpper(tbl.rows[i]["team_name"]).s, " ", << "_" >>))]
        float  == \E i \in 1..n : IsNA(tbl.rows[i]["team_id"])
        id     == [i \in 1..n |-> AsTypeStr(tbl.rows[i]["team_id"], float)]
    IN  IF "team" \in tbl.cols THEN SetColumn(tbl, "team", up("team"))
        ELSE IF "team_abbreviation" \in tbl.cols
        THEN SetColumn(tbl, "team", up("team_abbreviation"))
        ELSE IF "team_name" \in tbl.cols THEN SetColumn(tbl, "team", name)
        ELSE IF "team_id" \in tbl.cols THEN SetColumn(tbl, "team", id)
        ELSE tbl

\* _ensure_team(df) of the clutch and play-type cleaners on the frame read
\* from the file
EnsureTeamCall ==
    /\ op = "in"
    /\ Returns("ensure", EnsureTeam(ReadCsv(tab)))

\* _ensure_team(df, src_name) of the shooting cleaner
EnsureTeamShootingCall ==
    /\ op = "in"
    /\ Returns("ensure_shooting", EnsureTeamShooting(ReadCsv(tab)))

\* SpecEnsure: _ensure_team on one frame with rows (the cleaners return
\* before it on an empty frame)
MaxTeamRows == 2

TeamFieldTexts(c) ==
    CASE c = "team_id" -> {<< "7" >>, << >>}
      [] c = "pts"     -> {<< "1" >>}
      [] OTHER         -> {<< "l" >>, << "b", " ", "a" >>, << >>}

TeamHeaders ==
    {{"team", "team_abbreviation"}, {"team_abbreviation", "team_name"},
     {"team_name", "team_id"}, {"team_id"}, {"pts"}}

TeamFrames ==
    UNION {{[cols |-> h, rows |-> r] :
              r \in SeqsUpTo({x \in [h -> UNION {TeamFieldTexts(c) : c \in h}] :
                                 \A c \in h : x[c] \in TeamFieldTexts(c)}, MaxTeamRows)
                   \ {<< >>}} :
           h \in TeamHeaders}

InitEnsure ==
    /\ InitNoRun
    /\ InitCall(TeamFrames, {{}})

SpecEnsure == InitEnsure /\ [][EnsureTeamCall \/ EnsureTeamShootingCall]_vars

\* the candidate columns in their priority order
TeamPriority == << "team", "team_abbreviation", "team_name", "team_id" >>

\* the team code of one row as the claim has it: the first candidate that
\* is a column and not missing in the row, upper-cased, blanks as
\* underscores; the empty text without one
RowTeam(tbl, row) ==
    LET have == {k \in 1..4 : TeamPriority[k] \in tbl.cols /\ ~IsNA(row[TeamPriority[k]])}
    IN  IF have = {} THEN << >>
        ELSE CollapseBlanks(Upper(CellText(row[TeamPriority[First(have)]])))

\* C23: after _ensure_team the team of every row is the first present,
\* non-missing value among team, team_abbreviation, team_name and team_id,
\* upper-cased and with whitespace as underscores, and the empty text only
\* for a row without any candidate.
C23_TeamDerivation ==
    op \in {"ensure", "ensure_shooting"} =>
        /\ "team" \in out.cols
        /\ \A i \in 1..Len(out.rows) :
              out.rows[i]["team"] = Str(RowTeam(ReadCsv(tab), ReadCsv(tab).rows[i]))


\* ---- C24: the default draft round -----------------------------------------
\* C24: in the player cleaner every row whose draft text parses to a draft
\* year but states no round has draft_round 1 in the output.
C24_RoundDefault ==
    (op \in {"text", "all"} /\ ~err) =>
        \A k \in 1..Len(out.rows) :
            LET c == DraftRead(out.index[k])
            IN  (~NoDraft(c) /\ ~IsNA(DraftYear(c.s)) /\ IsNA(DraftRound(c.s))) =>
                    out.rows[k]["draft_round"] = Num(1)


\* ---- C25: season_end from the label's suffix ------------------------------
\* txt.split("-")[-1]: the text after the last "-"
AfterLastDash(t) ==
    LET dashes == {i \in 1..Len(t) : t[i] = "-"}
        last   == CHOOSE i \in dashes : \A j \in dashes : j <= i
    IN  SubSeq(t, last + 1, Len(t))

\* compute_end(x) of team_awards_clean.py: the suffix after the last "-"; a
\* suffix of two characters is put behind the first two characters of the
\* label; None without a "-" or with a suffix int() rejects
ComputeEnd(c) ==
    LET txt  == Strip(IF IsNA(c) THEN << "n", "a", "n" >> ELSE CellText(c))
        tail == AfterLastDash(txt)
        full == SubSeq(txt, 1, 2) \o tail
    IN  IF ~(\E i \in 1..Len(txt) : txt[i] = "-") THEN NA
        ELSE IF ~(tail # << >> /\ AllDigits(tail)) THEN NA
        ELSE IF Len(tail) = 2
        THEN (IF ParsesAsNumber(full) THEN Num(ParseNumber(full)) ELSE NA)
        ELSE Num(DigitsToInt(tail))

\* clean_one_team_file, step 8: season_start is the first four characters
\* as int where every row allows it (errors="ignore" keeps the texts
\* otherwise), season_end is compute_end of the label
TeamAwardSeasonSplit(tbl) ==
    LET n      == Len(tbl.rows)
        four   == [i \in 1..n |->
                     LET t == IF IsNA(tbl.rows[i]["season"]) THEN << "n", "a", "n" >>
                              ELSE CellText(tbl.rows[i]["season"])
                     IN  Str(SubSeq(t, 1, IF Len(t) < 4 THEN Len(t) ELSE 4))]
        ints   == \A i \in 1..n : IntCastable(four[i])
        start  == [i \in 1..n |-> IF ints THEN AsInt(four[i]) ELSE four[i]]
        end    == [i \in 1..n |-> ComputeEnd(tbl.rows[i]["season"])]
    IN  IF "season" \in tbl.cols
        THEN SetColumn(SetColumn(tbl, "season_start", start), "season_end", end)
        ELSE tbl

\* .str[-2:] on one cell of an object column
LastTwo(c) ==
    IF c.k = "str" THEN Str(SubSeq(c.s, IF Len(c.s) < 2 THEN 1 ELSE Len(c.s) - 1, Len(c.s)))
    ELSE NA

\* scripts/clean_mvp.py, lines 27-32: season_end is the last two digits plus
\* 2000, and 100 more when that is below season_start; astype(int) raises
\* on a row it cannot cast
LegacyMvpSeasonSplit(tbl) ==
    LET n      == Len(tbl.rows)
        four   == [i \in 1..n |-> FirstFour(tbl.rows[i]["season"])]
        two    == [i \in 1..n |-> LastTwo(tbl.rows[i]["season"])]
        start  == [i \in 1..n |-> AsInt(four[i])]
        naive  == [i \in 1..n |-> AsInt(two[i]).n + 2000]
        end    == [i \in 1..n |->
                     Num(IF naive[i] >= start[i].n THEN naive[i] ELSE naive[i] + 100)]
    IN  IF ~HasStrAccessor(tbl, "season")
           \/ \E i \in 1..n : ~IntCastable(four[i]) \/ ~IntCastable(two[i])
        THEN [raised |-> TRUE, df |-> NoTable]
        ELSE [raised |-> FALSE,
              df |-> SetColumn(SetColumn(tbl, "season_start", start), "season_end", end)]

\* the season split of clean_one_team_file
TeamAwardSeason ==
    /\ op = "in"
    /\ Returns("team_award", TeamAwardSeasonSplit(tab))

\* the season split of scripts/clean_mvp.py
LegacyMvpSeason ==
    /\ op = "in"
    /\ LET r == LegacyMvpSeasonSplit(tab)
       IN  IF r.raised THEN Raises("legacy_mvp") ELSE Returns("legacy_mvp", r.df)

\* SpecSeasonEnd: the two suffix derivations on the season column of a CSV
\* file
EndLabels ==
    {<< "1", "9", "9", "8", "-", "9", "9" >>,
     << "1", "9", "9", "9", "-", "0", "0" >>,
     << "2", "0", "2", "3", "-", "2", "4" >>,
     << "S", "e", "a", "s", "o", "n" >>}

InitSeasonEnd ==
    /\ InitNoRun
    /\ InitCall({ReadCsv(f) : f \in Tables({"season"}, EndLabels, MaxSeasonRows)}, {{}})

SpecSeasonEnd == InitSeasonEnd /\ [][TeamAwardSeason \/ LegacyMvpSeason]_vars

\* a label YYYY-YY of consecutive years
ConsecutiveLabel(c) ==
    /\ IsSeasonLabel(c)
    /\ 10 * DigitVal(c.s[6]) + DigitVal(c.s[7]) = (YearOf(c.s) + 1) % 100

\* C25: in the cleaners that derive season_end from the two-digit suffix,
\* a row labelled YYYY-YY of consecutive years has the integer season_end =
\* season_start + 1 > season_start, before 2000 and at 1999-00 as well.
C25_SuffixSeasonEnd ==
    (op \in {"team_award", "legacy_mvp"} /\ ~err) =>
        \A i \in 1..Len(tab.rows) :
            ConsecutiveLabel(tab.rows[i]["season"]) =>
                /\ out.rows[i]["season_start"] = Num(YearOf(tab.rows[i]["season"].s))
                /\ out.rows[i]["season_end"] = Num(YearOf(tab.rows[i]["season"].s) + 1)


(***************************************************************************)
(* Part 7.  The awards cleaner and its extra player columns.               *)
(***************************************************************************)
\* the characters of the column names an award file carries, raw and
\* normalised
NameText(h) ==
    CASE h = "Season"       -> << "S", "e", "a", "s", "o", "n" >>
      [] h = "Tm"           -> << "T", "m" >>
      [] h = "Player"       -> << "P", "l", "a", "y", "e", "r" >>
      [] h = "Unnamed: 4"   -> << "U", "n", "n", "a", "m", "e", "d", ":", " ", "4" >>
      [] h = "Unnamed: 5"   -> << "U", "n", "n", "a", "m", "e", "d", ":", " ", "5" >>
      [] h = "season"       -> << "s", "e", "a", "s", "o", "n" >>
      [] h = "tm"           -> << "t", "m" >>
      [] h = "team"         -> << "t", "e", "a", "m" >>
      [] h = "player"       -> << "p", "l", "a", "y", "e", "r" >>
      [] h = "unnamed_4"    -> << "u", "n", "n", "a", "m", "e", "d", "_", "4" >>
      [] h = "unnamed_5"    -> << "u", "n", "n", "a", "m", "e", "d", "_", "5" >>
      [] h = "award"        -> << "a", "w", "a", "r", "d" >>
      [] h = "season_start" -> << "s", "e", "a", "s", "o", "n", "_", "s", "t", "a", "r", "t" >>
      [] h = "season_end"   -> << "s", "e", "a", "s", "o", "n", "_", "e", "n", "d" >>

\* the column names in the order of the file
AwardNames == << "Season", "season", "Tm", "tm", "team", "Player", "player",
                 "Unnamed: 4", "unnamed_4", "Unnamed: 5", "unnamed_5",
                 "award", "season_start", "season_end" >>

\* the column that carries the given characters
NameOf(t) == CHOOSE h \in Range(AwardNames) : NameText(h) = t

\* df.columns = normalise_cols(df.columns)
NormaliseAwardCols(tbl) ==
    LET new(h) == NameOf(NormaliseName(NameText(h)))
        cols   == {new(h) : h \in tbl.cols}
        old(c) == CHOOSE h \in tbl.cols : new(h) = c
    IN  [cols |-> cols,
         rows |-> [i \in 1..Len(tbl.rows) |-> [c \in cols |-> tbl.rows[i][old(c)]]]]

\* re.compile(r"^unnamed:\s*\d+$", flags=re.IGNORECASE).match(c)
UnnamedPattern(t) ==
    LET word == << "u", "n", "n", "a", "m", "e", "d", ":" >>
        from == SkipSpaces(t, Len(word) + 1)
    IN  /\ StartsAt(Lower(t), 1, word)
        /\ from <= Len(t)
        /\ AllDigits(SubSeq(t, from, Len(t)))

\* c.startswith("unnamed"), whatever the case
UnnamedPrefix(t) == StartsAt(Lower(t), 1, << "u", "n", "n", "a", "m", "e", "d" >>)

\* df.melt(id_vars, value_vars, value_name="player") without the variable
\* column, the rows of a missing player dropped: the rows of the first
\* value column, then those of the second, ...
RECURSIVE MeltRows(_, _, _)
MeltRows(tbl, id_vars, value_vars) ==
    IF value_vars = << >> THEN << >>
    ELSE SelectSeq([i \in 1..Len(tbl.rows) |->
                      [c \in id_vars \cup {"player"} |->
                          IF c = "player" THEN tbl.rows[i][value_vars[1]]
                          ELSE tbl.rows[i][c]]],
                   LAMBDA r : ~IsNA(r["player"]))
         \o MeltRows(tbl, id_vars, Tail(value_vars))

\* clean_award_csv, step 4
MeltUnnamed(tbl) ==
    LET unnamed_cols == SelectSeq(AwardNames,
                                  LAMBDA h : h \in tbl.cols /\ UnnamedPattern(NameText(h)))
        other_cols   == tbl.cols \ Range(unnamed_cols)
    IN  IF unnamed_cols = << >> THEN tbl
        ELSE [cols |-> other_cols \cup {"player"},
              rows |-> MeltRows(tbl, other_cols, unnamed_cols)]

\* the award name: the stem of the file
AwardName == Str(<< "m", "v", "p" >>)

AWARD_TEXT_COLS == {"season", "lg", "player", "team", "player_id", "award"}

\* df["team"].fillna("").str.strip().replace("", "FA") on one cell
AwardTeam(c) ==
    IF IsNA(c) \/ (c.k = "str" /\ Strip(c.s) = << >>) THEN Str(<< "F", "A" >>)
    ELSE IF c.k = "str" THEN Str(Strip(c.s))
    ELSE NA

\* df["player"].str.strip() on one cell
StripCell(c) == IF c.k = "str" THEN Str(Strip(c.s)) ELSE NA

\* clean_award_csv from the frame read to the frame written: the table, or
\* the exception of the season split or of the .str accessor
CleanAwardCsv(file) ==
    LET t0 == NormaliseAwardCols(ReadCsv(file))
        t1 == Rename(Rename(t0, "tm", "team"), "9999", "player_id")
        t2 == IF "voting" \in t1.cols THEN DropColumn(t1, "voting") ELSE t1
        t3 == MeltUnnamed(t2)
        t4 == SetColumn(t3, "award", [i \in 1..Len(t3.rows) |-> AwardName])
        t5 == CoerceAllNumeric(t4, AWARD_TEXT_COLS)
        s6 == AwardSeasonSplit(t5)
        t6 == s6.df
        t7 == IF "team" \in t6.cols
              THEN SetColumn(t6, "team", [i \in 1..Len(t6.rows) |-> AwardTeam(t6.rows[i]["team"])])
              ELSE t6
        t8 == IF "player" \in t7.cols
              THEN SetColumn(t7, "player", [i \in 1..Len(t7.rows) |-> StripCell(t7.rows[i]["player"])])
              ELSE t7
    IN  IF s6.raised \/ ("player" \in t6.cols /\ ~HasStrAccessor(t6, "player"))
        THEN [raised |-> TRUE, df |-> NoTable]
        ELSE [raised |-> FALSE, df |-> DropDuplicates(t8)]

\* clean_award_csv(input_path, output_path, award_name)
CleanAward ==
    /\ op = "in"
    /\ LET r == CleanAwardCsv(tab)
       IN  IF r.raised THEN Raises("award") ELSE Returns("award", r.df)

\* SpecAward: clean_award_csv on one raw award file of up to MaxAwardRows
\* rows: a season and one or two player columns, named or not
MaxAwardRows == 2

AwardHeaders ==
    {{"Season", "Player"}, {"Season", "Unnamed: 4"}, {"Season", "Unnamed: 4", "Unnamed: 5"},
     {"Season", "Tm", "Player"}}

AwardFieldTexts(h) ==
    CASE h = "Season" -> {<< "2", "0", "2", "3", "-", "2", "4" >>}
      [] h = "Tm"     -> {<< >>, << "L", "A", "L" >>}
      [] OTHER        -> {<< >>, << "A" >>, << "B" >>}

AwardFiles ==
    UNION {{[cols |-> hs, rows |-> r] :
              r \in SeqsUpTo({f \in [hs -> {<< >>, << "A" >>, << "B" >>, << "L", "A", "L" >>,
                                            << "2", "0", "2", "3", "-", "2", "4" >>}] :
                                 \A h \in hs : f[h] \in AwardFieldTexts(h)}, MaxAwardRows)} :
           hs \in AwardHeaders}

InitAward ==
    /\ InitNoRun
    /\ InitCall(AwardFiles, {{}})

SpecAward == InitAward /\ [][CleanAward]_vars

\* the raw columns named like "Unnamed: N"
UnnamedRaw(file) == {h \in file.cols : UnnamedPattern(NameText(h))}

\* the player cells of the raw file: the non-empty fields of its unnamed
\* columns
PlayerCells(file) ==
    {<< i, h >> \in (1..Len(file.rows)) \X UnnamedRaw(file) : file.rows[i][h] # << >>}

\* C26: a raw award file with columns named like "Unnamed: N" has them
\* melted into the player column: the cleaned table has a player column
\* with one row per non-missing player cell, and no unnamed column.
C26_UnnamedMelted ==
    (op = "award" /\ UnnamedRaw(tab) # {}) =>
        /\ ~err
        /\ "player" \in out.cols
        /\ \A c \in out.cols : ~UnnamedPrefix(NameText(c))
        /\ Len(out.rows) = Cardinality(PlayerCells(tab))


(***************************************************************************)
(* Part 8.  call_api of the playtype scrapers.                             *)
(***************************************************************************)
\* In this part tab is the sequence of answers the endpoint gives to the
\* successive requests of one call (a response with its status code, a
\* requests.ConnectionError or a read timeout), excl is the
\* scraper, and out is the call: the requests made, the pauses slept and
\* the result.
MAX_ATTEMPTS == 3

Statuses == {200, 404, 429, 500, 503}

Response(status) == [kind |-> "response", status |-> status]

ConnectionError == [kind |-> "conn", status |-> 0]

ReadTimeout == [kind |-> "timeout", status |-> 0]

Answers == {Response(s) : s \in Statuses} \cup {ConnectionError, ReadTimeout}

IsStatus(a) == a.kind = "response"

\* bool(response): Response.__bool__ is response.ok, false from 400 on
ResponseTruthy(status) == status < 400

\* code = err.response.status_code if err.response else None (0 for None)
ErrCode(status) == IF ResponseTruthy(status) THEN status ELSE 0

\* the pause before the next attempt: 1.0, doubled after every sleep
Backoff(slept) == 2 ^ Len(slept)

\* one turn of the loop of call_api: the request, and what its answer leads to
Attempt(call, a) ==
    LET n       == call.requests + 1
        asked   == [call EXCEPT !.requests = n]
        again   == IF n = MAX_ATTEMPTS
                   THEN [asked EXCEPT !.result = IF a.kind = "conn" THEN "ConnectionError"
                                                ELSE "HTTPError"]
                   ELSE [asked EXCEPT !.slept = Append(@, Backoff(@))]
        code    == ErrCode(a.status)
    IN  IF a.kind = "timeout" THEN [asked EXCEPT !.result = "Timeout"]
        ELSE IF a.kind = "conn" THEN again
        ELSE IF a.status < 400 THEN [asked EXCEPT !.result = "table"]
        ELSE IF code # 0 /\ 400 <= code /\ code < 500
             THEN [asked EXCEPT !.result = "empty"]
        ELSE again

NewCall == [requests |-> 0, slept |-> << >>, result |-> "none"]

Running(o) == o.result = "none"

\* call_api of scrape_playtype.py, one attempt
TeamPlaytypeAttempt ==
    /\ excl = "team"
    /\ op \in {"in", "call"}
    /\ LET call == IF op = "in" THEN NewCall ELSE out
           next == Attempt(call, tab[call.requests + 1])
       IN  /\ out' = next
           /\ op' = IF Running(next) THEN "call" ELSE "called"
           /\ err' = (next.result \in {"HTTPError", "ConnectionError", "Timeout"})
    /\ UNCHANGED << dvars, tab, excl >>

\* call_api of scrape_players_playtype.py, one attempt
PlayerPlaytypeAttempt ==
    /\ excl = "players"
    /\ op \in {"in", "call"}
    /\ LET call == IF op = "in" THEN NewCall ELSE out
           next == Attempt(call, tab[call.requests + 1])
       IN  /\ out' = next
           /\ op' = IF Running(next) THEN "call" ELSE "called"
           /\ err' = (next.result \in {"HTTPError", "ConnectionError", "Timeout"})
    /\ UNCHANGED << dvars, tab, excl >>

\* SpecApi: one call of call_api against every sequence of answers
InitApi ==
    /\ InitNoRun
    /\ InitCall([1..MAX_ATTEMPTS -> Answers], {"team", "players"})

SpecApi == InitApi /\ [][TeamPlaytypeAttempt \/ PlayerPlaytypeAttempt]_vars

Is4xx(a) == IsStatus(a) /\ 400 <= a.status /\ a.status < 500

Retryable(a) == a.kind = "conn" \/ (IsStatus(a) /\ 500 <= a.status)

\* C27: a 4xx answer ends the call at once with the empty table, after one
\* request and no sleep; 5xx answers and connection errors are retried, the
\* call makes at most 3 requests, and after the third failure it raises.
C27_CallApi ==
    (op = "called") =>
        /\ out.requests <= MAX_ATTEMPTS
        /\ Is4xx(tab[1]) =>
              (out.result = "empty" /\ out.requests = 1 /\ out.slept = << >>)
        /\ (\A k \in 1..MAX_ATTEMPTS : Retryable(tab[k])) =>
              (out.requests = MAX_ATTEMPTS /\ err)


(***************************************************************************)
(* Part 9.  Runs of a per-team cleaner on a raw tree that changes.         *)
(***************************************************************************)
\* the versions of the raw tree: the folder of the default season, its
\* regular-season file holding up to MaxRows rows with a team column
RawVersions ==
    LET h == {"TEAM_ABBREVIATION", "PTS"}
    IN  {RawTree({DefaultSeason}, h,
                 [x \in {DefaultSeason} \X Files |->
                     IF x[2] = "regular_season" THEN t ELSE << >>]) :
            t \in SeqsUpTo(RawRows(h), MaxRows)}

\* the scraper rewrites the files under RAW_ROOT between two runs
ReplaceRaw ==
    /\ pc = "done"
    /\ runs < MaxRuns
    /\ raw' \in RawVersions \ {raw}
    /\ UNCHANGED << hvars, kind, disk, unwritable, pc, force, targets, cur, files,
                    base, df, groups, buckets, runs, argv, reran, nwrites, lastCall >>

InitRescrape ==
    /\ kind = "team"
    /\ raw \in RawVersions
    /\ unwritable = {}
    /\ InitRun
    /\ InitNoCall

NextRescrape ==
    \/ \E args \in Commands, frc \in BOOLEAN : StartRun(args, frc)
    \/ Rerun
    \/ NextSeason
    \/ EndRun
    \/ CleanOneCsv
    \/ WriteTeam
    \/ EndSeason
    \/ ReplaceRaw

\* SpecRescrape: up to MaxRuns runs of a per-team cleaner, forced or not,
\* the raw tree rewritten between them
SpecRescrape == InitRescrape /\ [][NextRescrape]_vars

\* the per-team files of a source file hold, together, exactly the rows of
\* its league-wide file
TeamFilesMirror(s, f) ==
    LET main == MainPath(s, f)
    IN  IF ~Exists(disk, main) THEN TeamFiles(s, f) = {}
        ELSE /\ \A i \in 1..Len(disk[main].rows) :
                  LET row == disk[main].rows[i]
                  IN  {p \in TeamFiles(s, f) : row \in Range(disk[p].rows)}
                        = {TeamPath(s, row["team"], f)}
             /\ \A p \in TeamFiles(s, f) :
                  /\ disk[p].cols = disk[main].cols
                  /\ disk[p].rows # << >>
                  /\ Range(disk[p].rows) \subseteq Range(disk[main].rows)
                  /\ \A i, j \in 1..Len(disk[p].rows) :
                        disk[p].rows[i] = disk[p].rows[j] => i = j

\* C28: after any sequence of completed runs of a per-team cleaner, forced
\* or not, the raw tree changing between them, the per-team files of every
\* source file hold together exactly the rows of its league-wide file.
C28_TeamFilesMirror ==
    (pc = "done" /\ kind = "team") =>
        \A s \in Seasons, f \in Files : TeamFilesMirror(s, f)


\* ---- C29: a file without game_date in the team advanced cleaner ----------
\* the raw file cleans to a table with rows and no game_date column
LacksGameDate(s, f) ==
    LET tbl == CleanTableTeamAdv(ReadCsv(raw[s][f]))
    IN  ~IsEmpty(ReadCsv(raw[s][f])) /\ ~IsEmpty(tbl) /\ "game_date" \notin tbl.cols

\* C29: in the team advanced box-score cleaner a non-empty raw file without
\* a game_date column is handled locally: the run goes on to its end, and
\* the file has its league-wide file and its per-team files, and no month
\* file.
C29_NoDateHandledLocally ==
    (pc \in {"done", "aborted"} /\ runs = 1 /\ kind = "teamadv") =>
        /\ (\E s \in Cleaned(argv), f \in Files : LacksGameDate(s, f)) => pc = "done"
        /\ \A s \in Cleaned(argv), f \in Files :
              LacksGameDate(s, f) =>
                  LET tbl == CleanTableTeamAdv(ReadCsv(raw[s][f]))
                  IN  /\ Exists(disk, MainPath(s, f))
                      /\ \A k \in Range(GroupKeys(tbl, "team")) :
                            Exists(disk, TeamPath(s, k, f))
                      /\ ~\E p \in DOMAIN disk :
                            p.d = "month" /\ p.season = s /\ p.file = f


\* ---- C30: what the retiree prune counts ----------------------------------
\* the core fields but birthdate and draft_year
REST_CORE == {"height", "weight", "position", "country", "draft_pick", "experience"}

\* isna() | astype(str).eq("") on one cell
CoreMissing(c) == IsNA(c) \/ CellText(c) = << >>

\* the row of the file is not in the output
Pruned(i) == \A k \in 1..Len(out.index) : out.index[k] # i

=============================================================================
